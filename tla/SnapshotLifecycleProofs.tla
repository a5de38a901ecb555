----------------------- MODULE SnapshotLifecycleProofs -----------------------
(***************************************************************************)
(* However many requests, background tasks, snapshots, programs and files  *)
(* there are: the counts of snapshots, of programs and of cached files are *)
(* exact, and no use of them panics.                                       *)
(***************************************************************************)
EXTENDS SnapshotLifecycle, FiniteSetTheorems, TLAPS

-----------------------------------------------------------------------------
(* The invariant.                                                               *)

Updates == {"handle", "noref", "api"}

\* A goroutine holds its base, and owns its new snapshot, in these states.
Bases(r) == \/ r.pc \in {"using", "release", "warmEnd", "publish"}
            \/ r.op \in {"prepare", "warm"}
Owns(r) == \/ r.pc \in {"install", "rejected", "handoff", "prepared", "warmed", "adopt", "lost"}
           \/ r.pc = "start" /\ r.op = "adopt"
           \/ r.pc \in {"unlock", "enqueue"} /\ WantsRef(r.op)

\* What a goroutine's operation and snapshots are at each of its steps.
Shape(r) ==
  /\ r.pc = "idle" => r.op = "none" /\ r.base = None /\ r.new = None
  /\ r.pc # "cloning" => r.build = NoPrograms /\ r.fresh = {}
  /\ r.pc \in {"locked", "install", "unlock", "enqueue"} => r.op \in Updates
  /\ r.pc = "host" => r.op = "noref"
  /\ r.pc \in {"rejected", "recover"} => r.op = "api"
  /\ r.pc = "cloning" => r.op \in Updates \cup {"prepare", "warm"}
  /\ r.pc = "using" => r.op \in {"handle", "api"}
  /\ r.pc \in {"handoff", "prepared", "release"} => r.op \in {"handle", "api", "prepare"}
  /\ r.pc \in {"handoff", "prepared"} => r.op = "prepare"
  /\ r.pc \in {"warmed", "warmEnd"} => r.op = "warm"
  /\ r.pc = "publish" => r.op = "publish"
  /\ r.pc \in {"start", "adopt", "adopted", "lost"} => r.op \in {"adopt", "warm"}
  /\ r.pc = "start" /\ r.op = "warm" => r.base = None
  /\ r.pc \in {"cloning", "using", "handoff", "prepared", "release", "warmed", "warmEnd", "publish",
               "install"} => r.base \in Snapshots
  /\ r.pc \in {"adopt", "adopted", "lost"} /\ r.op = "warm" => r.base \in Snapshots
  /\ r.pc \in {"install", "rejected", "unlock", "enqueue", "handoff", "prepared", "warmed", "start",
               "adopt", "lost"} => r.new \in Snapshots
  /\ r.pc = "install" => r.new # r.base
Shapes == \A g \in Goroutines : Shape(go[g])

\* Who updates the session's snapshot has its lock, and started from that snapshot.
Updating(r) == r.pc = "install" \/ (r.pc = "cloning" /\ r.op \in Updates)
Locks ==
  \A g \in Goroutines :
    /\ Updating(go[g]) => snapshotMu = g /\ go[g].base = current /\ closing # "closed"
    /\ go[g].pc \in {"unlock", "adopted"} => snapshotMu = g
    /\ go[g].pc \in {"locked", "rejected", "recover"} => updateMu = g
    /\ go[g].op = "api" /\ go[g].pc \in {"cloning", "install"} => updateMu = g
    /\ go[g].pc = "host" => updateMu = g \/ closing = "open"
    /\ go[g].pc \in {"locked", "rejected", "recover", "host"} => closing # "closed"

Closing ==
  /\ current = None <=> closing = "closed"
  /\ closing = "closed" => \A t \in Tasks : go[t].pc = "idle"
  /\ go[Closer].pc = "idle"
  /\ closing # "closed" => go[Closer].disposing = None

\* No failed snapshot is ever a base.
Unfailed ==
  /\ current \notin apiError
  /\ \A g \in Goroutines :
       /\ Bases(go[g]) => go[g].base \notin apiError
       /\ go[g].pc \in {"unlock", "enqueue", "handoff", "prepared", "warmed", "start", "adopt"}
            => go[g].new \notin apiError
       /\ go[g].pc = "install" /\ go[g].op # "api" => go[g].new \notin apiError

\* A project's program belongs to that project only.
Apart(b) == \A p1, p2 \in Projects : b[p1] = b[p2] /\ b[p1] # None => p1 = p2

\* The programs of a clone in progress are its own or its base's.
Clones ==
  /\ \A s \in Snapshots : Apart(programs[s])
  /\ \A g \in Goroutines :
       /\ Apart(go[g].build)
       /\ \A q \in go[g].fresh : \E p \in Projects : go[g].build[p] = q
       /\ \A p \in Projects : \/ go[g].build[p] = None \/ go[g].build[p] \in go[g].fresh
                              \/ go[g].build[p] = programs[go[g].base][p]

\* What a clone has built is nobody else's, and what it has dropped is nobody's.
FreshAlone ==
  /\ \A g \in Goroutines : \A q \in go[g].fresh :
       /\ counter[q] = 0 /\ q \notin orphans
       /\ \A g2 \in Goroutines : q \in go[g2].fresh => g2 = g
  /\ \A q \in orphans : /\ counter[q] = 0
                        /\ \A g \in Goroutines, p \in Projects : go[g].build[p] # q

\* A snapshot is disposed of once, by one goroutine.
Disposals ==
  \A g \in Goroutines : LET s == go[g].disposing IN
    s # None => /\ refCount[s] <= 0 /\ go[g].todo # {}
                /\ \A p \in go[g].todo : programs[s][p] # None
                /\ \A g2 \in Goroutines : go[g2].disposing = s => g2 = g

Counts == OwnersCounted /\ ProgramsTracked /\ FilesTracked
IInv == /\ TypeOK /\ Shapes /\ Locks /\ Closing /\ Unfailed /\ Clones /\ FreshAlone /\ Disposals
        /\ Counts /\ NoPanic

-----------------------------------------------------------------------------
(* Counting owners.                                                             *)

LEMMA Finite ==
  /\ IsFiniteSet(Goroutines) /\ None \notin Goroutines /\ IsFiniteSet(Snapshots \X Projects)
  /\ Closer \in Goroutines /\ Closer \notin Handlers \cup Tasks
<1>1. IsFiniteSet(Handlers \cup Tasks)
  BY GoroutinesAssumption, FS_Union
<1>2. IsFiniteSet((Handlers \cup Tasks) \cup {Closer})
  BY <1>1, FS_AddElement
<1>3. IsFiniteSet(Snapshots \X Projects)
  BY ObjectsAssumption, FS_Product
<1> QED
  BY <1>2, <1>3, GoroutinesAssumption DEF Goroutines

\* How many references to s a goroutine in state r has.
BaseWeight(r, s) == IF Bases(r) /\ r.base = s THEN 1 ELSE 0
NewWeight(r, s) == IF Owns(r) /\ r.new = s THEN 1 ELSE 0
Weight(r, s) == BaseWeight(r, s) + NewWeight(r, s)
BaseHolders(gs, s) == {g \in Goroutines : Bases(gs[g]) /\ gs[g].base = s}
NewOwners(gs, s) == {g \in Goroutines : Owns(gs[g]) /\ gs[g].new = s}
Count(gs, s) == Cardinality(BaseHolders(gs, s)) + Cardinality(NewOwners(gs, s))

LEMMA WeightType ==
  ASSUME NEW r, NEW s
  PROVE  Weight(r, s) \in Nat
BY DEF Weight, BaseWeight, NewWeight

LEMMA CountType ==
  ASSUME NEW gs, NEW s
  PROVE  /\ Count(gs, s) \in Nat
         /\ IsFiniteSet(BaseHolders(gs, s)) /\ Cardinality(BaseHolders(gs, s)) \in Nat
         /\ IsFiniteSet(NewOwners(gs, s)) /\ Cardinality(NewOwners(gs, s)) \in Nat
<1>1. IsFiniteSet(BaseHolders(gs, s)) /\ IsFiniteSet(NewOwners(gs, s))
  BY Finite, FS_Subset DEF BaseHolders, NewOwners
<1>2. Cardinality(BaseHolders(gs, s)) \in Nat /\ Cardinality(NewOwners(gs, s)) \in Nat
  BY <1>1, FS_CardinalityType
<1> QED
  BY <1>1, <1>2 DEF Count

LEMMA OwnersAre ==
  ASSUME NEW s
  PROVE  /\ Owners(s) = (IF current = s THEN 1 ELSE 0) + Count(go, s)
         /\ Owners(s)' = (IF current' = s THEN 1 ELSE 0) + Count(go', s)
<1>1. /\ BaseHolders(go, s) = {g \in Goroutines : HoldsBase(g) /\ go[g].base = s}
      /\ NewOwners(go, s) = {g \in Goroutines : OwnsNew(g) /\ go[g].new = s}
  BY DEF BaseHolders, NewOwners, HoldsBase, OwnsNew, Bases, Owns
<1>2. /\ BaseHolders(go', s) = {g \in Goroutines : HoldsBase(g)' /\ go'[g].base = s}
      /\ NewOwners(go', s) = {g \in Goroutines : OwnsNew(g)' /\ go'[g].new = s}
  BY DEF BaseHolders, NewOwners, HoldsBase, OwnsNew, Bases, Owns
<1>3. /\ Cardinality(BaseHolders(go, s)) \in Nat /\ Cardinality(NewOwners(go, s)) \in Nat
      /\ Cardinality(BaseHolders(go', s)) \in Nat /\ Cardinality(NewOwners(go', s)) \in Nat
  BY CountType
<1> QED
  BY <1>1, <1>2, <1>3 DEF Owners, Count

\* A set that differs from another by one element at most.
LEMMA OneDiffers ==
  ASSUME NEW A, IsFiniteSet(A), NEW B, IsFiniteSet(B), NEW x, A \ {x} = B \ {x}
  PROVE  Cardinality(B) + (IF x \in A THEN 1 ELSE 0) = Cardinality(A) + (IF x \in B THEN 1 ELSE 0)
<1>1. \A S : IsFiniteSet(S) => /\ Cardinality(S) \in Nat /\ Cardinality(S \ {x}) \in Nat
                               /\ x \in S => Cardinality(S \ {x}) = Cardinality(S) - 1
                               /\ x \notin S => S \ {x} = S
  <2> SUFFICES ASSUME NEW S, IsFiniteSet(S)
               PROVE  /\ Cardinality(S) \in Nat /\ Cardinality(S \ {x}) \in Nat
                      /\ x \in S => Cardinality(S \ {x}) = Cardinality(S) - 1
                      /\ x \notin S => S \ {x} = S
    OBVIOUS
  <2>1. Cardinality(S) \in Nat
    BY FS_CardinalityType
  <2>2. IsFiniteSet(S \ {x}) /\ (x \in S => Cardinality(S \ {x}) = Cardinality(S) - 1)
    BY FS_RemoveElement
  <2>3. Cardinality(S \ {x}) \in Nat
    BY <2>2, FS_CardinalityType
  <2>4. x \notin S => S \ {x} = S
    OBVIOUS
  <2> QED
    BY <2>1, <2>2, <2>3, <2>4
<1>2. Cardinality(A \ {x}) = Cardinality(B \ {x})
  OBVIOUS
<1> QED
  BY <1>1, <1>2

\* Only h has moved from gs to gs2.
OnlyMoved(gs, gs2, h) == \A k \in Goroutines : k # h => gs2[k] = gs[k]

LEMMA OneMoved ==
  ASSUME NEW gs, NEW gs2, NEW h \in Goroutines, NEW s, OnlyMoved(gs, gs2, h)
  PROVE  Count(gs2, s) = Count(gs, s) + Weight(gs2[h], s) - Weight(gs[h], s)
<1>1. BaseHolders(gs, s) \ {h} = BaseHolders(gs2, s) \ {h}
  BY DEF BaseHolders, OnlyMoved
<1>2. NewOwners(gs, s) \ {h} = NewOwners(gs2, s) \ {h}
  BY DEF NewOwners, OnlyMoved
<1>3. Cardinality(BaseHolders(gs2, s)) + BaseWeight(gs[h], s)
        = Cardinality(BaseHolders(gs, s)) + BaseWeight(gs2[h], s)
  <2>1. /\ (h \in BaseHolders(gs, s)) = (Bases(gs[h]) /\ gs[h].base = s)
        /\ (h \in BaseHolders(gs2, s)) = (Bases(gs2[h]) /\ gs2[h].base = s)
    BY DEF BaseHolders, Bases
  <2>2. Cardinality(BaseHolders(gs2, s)) + (IF h \in BaseHolders(gs, s) THEN 1 ELSE 0)
          = Cardinality(BaseHolders(gs, s)) + (IF h \in BaseHolders(gs2, s) THEN 1 ELSE 0)
    BY <1>1, CountType, OneDiffers
  <2> QED
    BY <2>1, <2>2 DEF BaseWeight
<1>4. Cardinality(NewOwners(gs2, s)) + NewWeight(gs[h], s)
        = Cardinality(NewOwners(gs, s)) + NewWeight(gs2[h], s)
  <2>1. /\ (h \in NewOwners(gs, s)) = (Owns(gs[h]) /\ gs[h].new = s)
        /\ (h \in NewOwners(gs2, s)) = (Owns(gs2[h]) /\ gs2[h].new = s)
    BY DEF NewOwners, Owns
  <2>2. Cardinality(NewOwners(gs2, s)) + (IF h \in NewOwners(gs, s) THEN 1 ELSE 0)
          = Cardinality(NewOwners(gs, s)) + (IF h \in NewOwners(gs2, s) THEN 1 ELSE 0)
    BY <1>2, CountType, OneDiffers
  <2> QED
    BY <2>1, <2>2 DEF NewWeight
<1>5. /\ BaseWeight(gs[h], s) \in Nat /\ NewWeight(gs[h], s) \in Nat
      /\ BaseWeight(gs2[h], s) \in Nat /\ NewWeight(gs2[h], s) \in Nat
  BY DEF BaseWeight, NewWeight
<1>6. /\ Cardinality(BaseHolders(gs, s)) \in Nat /\ Cardinality(BaseHolders(gs2, s)) \in Nat
      /\ Cardinality(NewOwners(gs, s)) \in Nat /\ Cardinality(NewOwners(gs2, s)) \in Nat
  BY CountType
<1> QED
  BY <1>3, <1>4, <1>5, <1>6 DEF Count, Weight

LEMMA TwoMoved ==
  ASSUME NEW gs, NEW gs2, NEW h \in Goroutines, NEW t \in Goroutines, h # t, NEW s,
         \A k \in Goroutines : k \notin {h, t} => gs2[k] = gs[k]
  PROVE  Count(gs2, s) = Count(gs, s) + Weight(gs2[h], s) - Weight(gs[h], s)
                                      + Weight(gs2[t], s) - Weight(gs[t], s)
<1> DEFINE mid == [k \in Goroutines |-> IF k = h THEN gs2[h] ELSE gs[k]]
<1>1. /\ mid[h] = gs2[h] /\ mid[t] = gs[t]
      /\ OnlyMoved(gs, mid, h) /\ OnlyMoved(mid, gs2, t)
  BY DEF OnlyMoved
<1> HIDE DEF mid
<1>2. Count(mid, s) = Count(gs, s) + Weight(mid[h], s) - Weight(gs[h], s)
  BY <1>1, OneMoved
<1>3. Count(gs2, s) = Count(mid, s) + Weight(gs2[t], s) - Weight(mid[t], s)
  BY <1>1, OneMoved
<1>4. Count(gs, s) \in Nat
  BY CountType
<1>5. /\ Weight(gs[h], s) \in Nat /\ Weight(gs2[h], s) \in Nat
      /\ Weight(gs[t], s) \in Nat /\ Weight(gs2[t], s) \in Nat
  BY DEF Weight, BaseWeight, NewWeight
<1> QED
  BY <1>1, <1>2, <1>3, <1>4, <1>5

\* Whoever holds or owns a snapshot keeps it alive.
LEMMA Alive ==
  ASSUME OwnersCounted, TypeOK, NEW s \in Snapshots
  PROVE  /\ refCount[s] \in Int /\ Count(go, s) \in Nat
         /\ refCount[s] >= (IF current = s THEN 1 ELSE 0) + Count(go, s)
         /\ closing = "open" => refCount[s] = (IF current = s THEN 1 ELSE 0) + Count(go, s)
         /\ current = s => refCount[s] >= 1
         /\ \A g \in Goroutines : Bases(go[g]) /\ go[g].base = s => refCount[s] >= 1
         /\ \A g \in Goroutines : Owns(go[g]) /\ go[g].new = s => refCount[s] >= 1
<1>1. /\ refCount[s] >= (IF current = s THEN 1 ELSE 0) + Count(go, s)
      /\ closing = "open" => refCount[s] = (IF current = s THEN 1 ELSE 0) + Count(go, s)
  BY OwnersAre DEF OwnersCounted
<1>2. refCount[s] \in Int /\ Count(go, s) \in Nat
  BY CountType DEF TypeOK
<1>3. \A g \in Goroutines : (Bases(go[g]) /\ go[g].base = s) \/ (Owns(go[g]) /\ go[g].new = s)
                             => Count(go, s) >= 1
  <2> SUFFICES ASSUME NEW g \in Goroutines, \/ Bases(go[g]) /\ go[g].base = s
                                            \/ Owns(go[g]) /\ go[g].new = s
               PROVE  Count(go, s) >= 1
    OBVIOUS
  <2>1. g \in BaseHolders(go, s) \/ g \in NewOwners(go, s)
    BY DEF BaseHolders, NewOwners
  <2>2. Cardinality(BaseHolders(go, s)) # 0 \/ Cardinality(NewOwners(go, s)) # 0
    BY <2>1, CountType, FS_EmptySet
  <2> QED
    BY <2>2, CountType DEF Count
<1>4. current = s => refCount[s] >= 1
  BY <1>1, <1>2
<1>5. Count(go, s) >= 1 => refCount[s] >= 1
  BY <1>1, <1>2
<1>6. \A g \in Goroutines : Bases(go[g]) /\ go[g].base = s => refCount[s] >= 1
  BY <1>3, <1>5
<1>7. \A g \in Goroutines : Owns(go[g]) /\ go[g].new = s => refCount[s] >= 1
  BY <1>3, <1>5
<1> QED
  BY <1>1, <1>2, <1>4, <1>6, <1>7

-----------------------------------------------------------------------------
(* Steps that leave the caches alone.                                           *)

Holders(q) == {sp \in Snapshots \X Projects : programs[sp[1]][sp[2]] = q /\ Holds(sp[1], sp[2])}
Live(q) == counter[q] > 0 \/ q \in orphans \/ \E g \in Goroutines : q \in go[g].fresh
Containing(f) == {q \in Programs : f \in files[q] /\ Live(q)}

LEMMA HoldersFinite ==
  ASSUME NEW q
  PROVE  IsFiniteSet(Holders(q)) /\ Cardinality(Holders(q)) \in Nat
<1>1. Holders(q) \in SUBSET (Snapshots \X Projects)
  BY DEF Holders
<1>2. IsFiniteSet(Holders(q))
  BY <1>1, Finite, FS_Subset
<1> QED
  BY <1>2, FS_CardinalityType

\* A program that a snapshot holds is counted.
LEMMA ProgramHeld ==
  ASSUME TypeOK, ProgramsTracked, NEW s \in Snapshots, NEW p \in Projects,
         programs[s][p] # None, Holds(s, p)
  PROVE  programs[s][p] \in Programs /\ counter[programs[s][p]] > 0
<1> DEFINE q == programs[s][p]
<1>1. q \in Programs
  BY DEF TypeOK
<1>2. <<s, p>> \in Holders(q)
  BY DEF Holders
<1>3. Cardinality(Holders(q)) # 0
  BY <1>2, HoldersFinite, FS_EmptySet
<1>4. counter[q] = Cardinality(Holders(q))
  BY <1>1 DEF ProgramsTracked, Holders
<1> QED
  BY <1>1, <1>3, <1>4, HoldersFinite

HoldsSame ==
  \A s \in Snapshots, p \in Projects : programs[s][p] # None => (Holds(s, p)' <=> Holds(s, p))

\* A goroutine's clone under construction stays what it is, or is begun.
KeepsBuild(g) == /\ go'[g].fresh = go[g].fresh /\ go'[g].build = go[g].build
                 /\ go[g].build = NoPrograms \/ go'[g].base = go[g].base
StartsBuild(g) == /\ go[g].fresh = {} /\ go'[g].fresh = {} /\ go'[g].base \in Snapshots
                  /\ refCount[go'[g].base] >= 1 /\ go'[g].build = programs[go'[g].base]

LEMMA Quiet ==
  ASSUME TypeOK, Clones, FreshAlone, ProgramsTracked, FilesTracked, HoldsSame,
         UNCHANGED <<programs, counter, files, parseRefs, orphans>>,
         \A g \in Goroutines : KeepsBuild(g) \/ StartsBuild(g)
  PROVE  Clones' /\ FreshAlone' /\ ProgramsTracked' /\ FilesTracked'
<1>1. \A g \in Goroutines : go'[g].fresh = go[g].fresh
  BY DEF KeepsBuild, StartsBuild
<1>2. Clones'
  <2>1. \A g \in Goroutines : Apart(go'[g].build)
    BY DEF Clones, KeepsBuild, StartsBuild, Apart
  <2>2. ASSUME NEW g \in Goroutines
        PROVE  /\ \A q \in go'[g].fresh : \E p \in Projects : go'[g].build[p] = q
               /\ \A p \in Projects : \/ go'[g].build[p] = None \/ go'[g].build[p] \in go'[g].fresh
                                      \/ go'[g].build[p] = programs[go'[g].base][p]
    <3>1. CASE KeepsBuild(g)
      <4>1. NoPrograms = [p \in Projects |-> None]
        BY DEF NoPrograms
      <4> QED
        BY <2>2, <3>1, <4>1 DEF Clones, KeepsBuild
    <3>2. CASE StartsBuild(g)
      BY <3>2 DEF StartsBuild
    <3> QED
      BY <2>2, <3>1, <3>2
  <2>3. \A s \in Snapshots : Apart(programs'[s])
    BY DEF Clones, Apart
  <2> QED
    BY <2>1, <2>2, <2>3 DEF Clones, Apart
<1>3. FreshAlone'
  <2>1. ASSUME NEW q \in orphans, NEW g \in Goroutines, NEW p \in Projects, go'[g].build[p] = q
        PROVE  FALSE
    <3>1. counter[q] = 0 /\ go[g].build[p] # q
      BY <2>1 DEF FreshAlone
    <3>2. StartsBuild(g)
      BY <2>1, <3>1 DEF KeepsBuild
    <3>3. go'[g].base \in Snapshots /\ programs[go'[g].base][p] = q /\ refCount[go'[g].base] > 0
      <4>1. refCount[go'[g].base] \in Int
        BY <3>2 DEF StartsBuild, TypeOK
      <4> QED
        BY <2>1, <3>2, <4>1 DEF StartsBuild
    <3>4. q # None
      BY ObjectsAssumption DEF TypeOK
    <3>5. Holds(go'[g].base, p)
      BY <3>3 DEF Holds
    <3> QED
      BY <3>1, <3>3, <3>4, <3>5, ProgramHeld
  <2> QED
    BY <1>1, <2>1 DEF FreshAlone
<1>4. ProgramsTracked'
  <2>1. ASSUME NEW q \in Programs
        PROVE  Holders(q)' = Holders(q)
    BY <2>1, ObjectsAssumption DEF Holders, HoldsSame
  <2>2. \A q \in Programs : counter[q] = Cardinality(Holders(q))
    BY DEF ProgramsTracked, Holders
  <2>3. \A q \in Programs : counter'[q] = Cardinality(Holders(q)')
    BY <2>1, <2>2
  <2> QED
    BY <2>3 DEF ProgramsTracked, Holders
<1>5. FilesTracked'
  <2>1. \A q \in Programs : Live(q)' <=> Live(q)
    BY <1>1 DEF Live
  <2>2. \A f \in Files : Containing(f)' = Containing(f)
    BY <2>1 DEF Containing
  <2>3. \A f \in Files : parseRefs[f] = Cardinality(Containing(f))
    BY DEF FilesTracked, Containing, Live
  <2>4. \A f \in Files : parseRefs'[f] = Cardinality(Containing(f)')
    BY <2>2, <2>3
  <2> QED
    BY <2>4 DEF FilesTracked, Containing, Live
<1> QED
  BY <1>2, <1>3, <1>4, <1>5

\* g disposes of what it did before.
SameDisposal(g) == /\ go'[g].disposing = go[g].disposing
                   /\ go[g].disposing = None \/ go'[g].todo = go[g].todo

\* No snapshot dies.
LEMMA RefsStay ==
  ASSUME TypeOK, Disposals, programs' = programs, refCount' \in [Snapshots -> Int],
         \A s \in Snapshots : refCount'[s] > 0 <=> refCount[s] > 0,
         \A g \in Goroutines : SameDisposal(g)
  PROVE  Disposals' /\ HoldsSame
<1>1. \A s \in Snapshots : refCount[s] \in Int /\ refCount'[s] \in Int
  BY DEF TypeOK
<1>2. \A g \in Goroutines : go[g].disposing \in Snapshots \cup {None}
  BY DEF TypeOK, GoState
<1>3. Disposals'
  BY <1>1, <1>2 DEF Disposals, SameDisposal
<1>4. HoldsSame
  BY ObjectsAssumption DEF HoldsSame, Holds, SameDisposal
<1> QED
  BY <1>3, <1>4

\* g gives back a reference to s, and disposes of s when it was the last.
AllOf(s) == {p \in Projects : programs[s][p] # None}
Disposes(g, s) == IF refCount[s] = 1 /\ AllOf(s) # {}
                  THEN go'[g].disposing = s /\ go'[g].todo = AllOf(s)
                  ELSE go'[g].disposing = None

LEMMA RefGoes ==
  ASSUME TypeOK, Disposals, programs' = programs, refCount' \in [Snapshots -> Int],
         NEW g \in Goroutines, go[g].disposing = None, NEW s \in Snapshots,
         refCount[s] >= 1, refCount'[s] = refCount[s] - 1,
         \A s2 \in Snapshots : s2 # s => (refCount'[s2] > 0 <=> refCount[s2] > 0),
         \A k \in Goroutines : k # g => SameDisposal(k),
         Disposes(g, s)
  PROVE  Disposals' /\ HoldsSame
<1>1. \A s2 \in Snapshots : refCount[s2] \in Int /\ refCount'[s2] \in Int
  BY DEF TypeOK
<1>2. \A k \in Goroutines : go[k].disposing \in Snapshots \cup {None}
  BY DEF TypeOK, GoState
<1>3. \A k \in Goroutines : go[k].disposing # s
  BY <1>1, ObjectsAssumption DEF Disposals
<1>4. /\ go'[g].disposing \in {None, s}
      /\ \A k \in Goroutines : k # g => go'[k].disposing = go[k].disposing
  BY DEF Disposes, SameDisposal
<1>5. go'[g].disposing = s => refCount'[s] = 0 /\ go'[g].todo = AllOf(s) /\ AllOf(s) # {}
  BY <1>1, ObjectsAssumption DEF Disposes
<1>6. Disposals'
  <2> SUFFICES ASSUME NEW k \in Goroutines, go'[k].disposing # None
               PROVE  /\ refCount'[go'[k].disposing] <= 0 /\ go'[k].todo # {}
                      /\ \A p \in go'[k].todo : programs[go'[k].disposing][p] # None
                      /\ \A g2 \in Goroutines : go'[g2].disposing = go'[k].disposing => g2 = k
    BY DEF Disposals
  <2>1. CASE k = g
    <3>1. \A g2 \in Goroutines : go'[g2].disposing = s => g2 = g
      BY <1>3, <1>4
    <3> QED
      BY <1>1, <1>4, <1>5, <2>1, <3>1 DEF AllOf
  <2>2. CASE k # g
    <3>1. go[k].disposing \in Snapshots /\ go[k].disposing # s
      BY <1>2, <1>3, <1>4, <2>2
    <3>2. refCount'[go[k].disposing] <= 0
      <4>1. refCount[go[k].disposing] <= 0
        BY <3>1, ObjectsAssumption DEF Disposals
      <4> QED
        BY <1>1, <3>1, <4>1
    <3>3. go'[k].todo = go[k].todo
      BY <2>2, <3>1, ObjectsAssumption DEF SameDisposal
    <3>4. \A g2 \in Goroutines : go'[g2].disposing = go[k].disposing => g2 = k
      BY <1>4, <2>2, <3>1, ObjectsAssumption DEF Disposals
    <3> QED
      BY <1>4, <2>2, <3>1, <3>2, <3>3, <3>4, ObjectsAssumption DEF Disposals
  <2> QED
    BY <2>1, <2>2
<1>7. HoldsSame
  <2> SUFFICES ASSUME NEW s2 \in Snapshots, NEW p \in Projects, programs[s2][p] # None
               PROVE  Holds(s2, p)' <=> Holds(s2, p)
    BY DEF HoldsSame
  <2>1. CASE s2 = s
    <3>1. Holds(s, p)
      BY <1>1 DEF Holds
    <3>2. CASE refCount[s] = 1
      <4>1. p \in AllOf(s)
        BY <2>1 DEF AllOf
      <4>2. go'[g].disposing = s /\ p \in go'[g].todo
        BY <3>2, <4>1 DEF Disposes
      <4> QED
        BY <2>1, <3>1, <4>2 DEF Holds
    <3>3. CASE refCount[s] # 1
      <4>1. refCount'[s] > 0
        BY <1>1, <3>3
      <4> QED
        BY <2>1, <3>1, <4>1 DEF Holds
    <3> QED
      BY <3>2, <3>3
  <2>2. CASE s2 # s
    <3>1. \A k \in Goroutines : (go'[k].disposing = s2 /\ p \in go'[k].todo)
                                 <=> (go[k].disposing = s2 /\ p \in go[k].todo)
      BY <1>4, <2>2, ObjectsAssumption DEF SameDisposal
    <3> QED
      BY <2>2, <3>1 DEF Holds
  <2> QED
    BY <2>1, <2>2
<1> QED
  BY <1>6, <1>7

-----------------------------------------------------------------------------
(* Single steps.                                                                *)

LEMMA GoFields ==
  ASSUME TypeOK, NEW g \in Goroutines
  PROVE  /\ go[g] \in GoState
         /\ go[g].pc \in PCs /\ go[g].base \in Snapshots \cup {None}
         /\ go[g].new \in Snapshots \cup {None} /\ go[g].disposing \in Snapshots \cup {None}
         /\ go[g].todo \subseteq Projects /\ go[g].fresh \subseteq Programs
         /\ go[g].build \in [Projects -> Programs \cup {None}] /\ go[g].builds \in 0 .. MaxBuilds
         /\ go[g].op \in {"none", "handle", "noref", "api", "prepare", "adopt", "warm", "publish",
                          "close"}
  BY DEF TypeOK, GoState

LEMMA Moves ==
  ASSUME TypeOK, NEW g \in Goroutines, NEW r \in GoState, go' = [go EXCEPT ![g] = r]
  PROVE  go' \in [Goroutines -> GoState] /\ OnlyMoved(go, go', g) /\ go'[g] = r
BY DEF TypeOK, OnlyMoved

LEMMA IdleFields ==
  /\ Idle \in GoState
  /\ Idle.pc = "idle" /\ Idle.op = "none" /\ Idle.base = None /\ Idle.new = None
  /\ Idle.build = NoPrograms /\ Idle.fresh = {} /\ Idle.disposing = None /\ Idle.todo = {}
<1>1. 0 \in 0 .. MaxBuilds /\ NoPrograms \in [Projects -> Programs \cup {None}]
  BY BoundAssumption DEF NoPrograms
<1> QED
  BY <1>1 DEF Idle, GoState, PCs

LEMMA Starts ==
  ASSUME TypeOK, NEW g \in Goroutines, NEW q \in GoState, NEW base \in Snapshots,
         NEW op \in {"handle", "noref", "api", "prepare", "warm"},
         StartClone(g, [go EXCEPT ![g] = q], op, base)
  PROVE  /\ go' \in [Goroutines -> GoState] /\ OnlyMoved(go, go', g)
         /\ go'[g].pc = "cloning" /\ go'[g].op = op /\ go'[g].base = base /\ go'[g].new = q.new
         /\ go'[g].build = programs[base] /\ go'[g].fresh = {}
         /\ go'[g].disposing = q.disposing
         /\ base \notin apiError /\ refCount[base] >= 1 => panicked' = panicked
<1> DEFINE r == [q EXCEPT !.pc = "cloning", !.op = op, !.base = base,
                          !.build = programs[base], !.builds = 0, !.fresh = {}]
<1>1. go' = [go EXCEPT ![g] = r]
  BY DEF StartClone, TypeOK
<1>2. /\ 0 \in 0 .. MaxBuilds /\ programs[base] \in [Projects -> Programs \cup {None}]
  BY BoundAssumption DEF TypeOK
<1>3. r \in GoState
  BY <1>2 DEF GoState, PCs
<1>4. /\ r.pc = "cloning" /\ r.op = op /\ r.base = base /\ r.new = q.new
      /\ r.build = programs[base] /\ r.fresh = {} /\ r.disposing = q.disposing
  BY DEF GoState
<1> HIDE DEF r
<1>5. base \notin apiError /\ refCount[base] >= 1 => panicked' = panicked
  <2>1. refCount[base] \in Int /\ panicked \in BOOLEAN
    BY DEF TypeOK
  <2> QED
    BY <2>1 DEF StartClone, RefPanics
<1> QED
  BY <1>1, <1>3, <1>4, <1>5, Moves

\* A change of the owners of s by d comes with that of its count.
SessionHas(c, s) == IF c = s THEN 1 ELSE 0
Balanced(s, d) ==
  LET e == refCount[s] + d + SessionHas(current', s) - SessionHas(current, s)
  IN  /\ refCount'[s] >= e
      /\ closing' = "open" => closing = "open" /\ refCount'[s] = e

CachesKept == /\ UNCHANGED <<programs, counter, files, parseRefs, orphans>>
              /\ panicked' = panicked

\* The parts of the invariant that are about the goroutines and the session.
Places == TypeOK /\ Locks /\ Closing /\ Unfailed

LEMMA BalancedOwners ==
  ASSUME IInv, NEW s \in Snapshots, NEW d \in Int, Count(go', s) = Count(go, s) + d,
         Balanced(s, d), refCount'[s] \in Int
  PROVE  /\ refCount'[s] >= Owners(s)'
         /\ closing' = "open" => refCount'[s] = Owners(s)'
<1>1. /\ refCount[s] \in Int /\ Count(go, s) \in Nat
      /\ refCount[s] >= SessionHas(current, s) + Count(go, s)
      /\ closing = "open" => refCount[s] = SessionHas(current, s) + Count(go, s)
  BY Alive DEF IInv, Counts, SessionHas
<1>2. Owners(s)' = SessionHas(current', s) + Count(go', s)
  BY OwnersAre DEF SessionHas
<1>3. SessionHas(current', s) \in {0, 1} /\ SessionHas(current, s) \in {0, 1}
  BY DEF SessionHas
<1> QED
  BY <1>1, <1>2, <1>3 DEF Balanced

LEMMA OneStep ==
  ASSUME IInv, NEW g \in Goroutines, CachesKept, OnlyMoved(go, go', g),
         KeepsBuild(g) \/ StartsBuild(g), Shape(go'[g]),
         Places', Disposals', HoldsSame,
         \A s \in Snapshots : Balanced(s, Weight(go'[g], s) - Weight(go[g], s))
  PROVE  IInv'
<1>1. Shapes'
  BY DEF Shapes, IInv, OnlyMoved
<1>2. \A k \in Goroutines : KeepsBuild(k) \/ StartsBuild(k)
  BY DEF OnlyMoved, KeepsBuild
<1>3. Clones' /\ FreshAlone' /\ ProgramsTracked' /\ FilesTracked'
  BY <1>2, Quiet DEF IInv, Counts, CachesKept
<1>4. OwnersCounted'
  <2> SUFFICES ASSUME NEW s \in Snapshots
               PROVE  /\ refCount'[s] >= Owners(s)'
                      /\ closing' = "open" => refCount'[s] = Owners(s)'
    BY DEF OwnersCounted
  <2> DEFINE d == Weight(go'[g], s) - Weight(go[g], s)
  <2>1. d \in Int /\ Count(go', s) = Count(go, s) + d
    BY OneMoved, WeightType, CountType
  <2>2. refCount'[s] \in Int
    BY DEF Places, TypeOK
  <2>3. Balanced(s, d)
    OBVIOUS
  <2> HIDE DEF d
  <2> QED
    BY <2>1, <2>2, <2>3, BalancedOwners
<1> QED
  BY <1>1, <1>3, <1>4 DEF IInv, Places, Counts, NoPanic, CachesKept

\* The same for a step of g that also starts a task in t.
TwoMove(g, t) == \A k \in Goroutines : k \notin {g, t} => go'[k] = go[k]

LEMMA TwoSteps ==
  ASSUME IInv, NEW g \in Goroutines, NEW t \in Goroutines, g # t, CachesKept,
         TwoMove(g, t),
         KeepsBuild(g), KeepsBuild(t), Shape(go'[g]), Shape(go'[t]),
         Places', Disposals', HoldsSame,
         \A s \in Snapshots : Balanced(s, Weight(go'[g], s) - Weight(go[g], s)
                                          + Weight(go'[t], s) - Weight(go[t], s))
  PROVE  IInv'
<1>1. Shapes'
  BY DEF Shapes, IInv, TwoMove
<1>2. \A k \in Goroutines : KeepsBuild(k) \/ StartsBuild(k)
  BY DEF KeepsBuild, TwoMove
<1>3. Clones' /\ FreshAlone' /\ ProgramsTracked' /\ FilesTracked'
  BY <1>2, Quiet DEF IInv, Counts, CachesKept
<1>4. OwnersCounted'
  <2> SUFFICES ASSUME NEW s \in Snapshots
               PROVE  /\ refCount'[s] >= Owners(s)'
                      /\ closing' = "open" => refCount'[s] = Owners(s)'
    BY DEF OwnersCounted
  <2> DEFINE d == Weight(go'[g], s) - Weight(go[g], s) + Weight(go'[t], s) - Weight(go[t], s)
  <2>1. d \in Int /\ Count(go', s) = Count(go, s) + d
    BY TwoMoved, WeightType, CountType DEF TwoMove
  <2>2. refCount'[s] \in Int
    BY DEF Places, TypeOK
  <2>3. Balanced(s, d)
    OBVIOUS
  <2> HIDE DEF d
  <2> QED
    BY <2>1, <2>2, <2>3, BalancedOwners
<1> QED
  BY <1>1, <1>3, <1>4 DEF IInv, Places, Counts, NoPanic, CachesKept

\* What every step may rely on, and what a (*Snapshot).Deref does.
LEMMA Here ==
  ASSUME IInv, NEW g \in Handlers \cup Tasks
  PROVE  g \in Goroutines /\ g # Closer /\ TypeOK /\ Shape(go[g]) /\ go[g] \in GoState
BY Finite, GoFields DEF IInv, Shapes, Goroutines

LEMMA DerefMoves ==
  ASSUME TypeOK, NEW g \in Goroutines, NEW r \in GoState, r.disposing = None, NEW s \in Snapshots,
         Deref(g, s, [go EXCEPT ![g] = r]), refCount[s] >= 1
  PROVE  /\ go' \in [Goroutines -> GoState] /\ OnlyMoved(go, go', g)
         /\ go'[g].pc = r.pc /\ go'[g].op = r.op /\ go'[g].base = r.base /\ go'[g].new = r.new
         /\ go'[g].build = r.build /\ go'[g].fresh = r.fresh
         /\ Disposes(g, s) /\ panicked' = panicked
         /\ refCount' = [refCount EXCEPT ![s] = @ - 1] /\ refCount' \in [Snapshots -> Int]
<1> DEFINE d == [r EXCEPT !.disposing = s, !.todo = AllOf(s)]
           disposes == refCount[s] = 1 /\ AllOf(s) # {}
<1>1. refCount[s] \in Int /\ refCount' = [refCount EXCEPT ![s] = @ - 1] /\ panicked' = panicked
  BY DEF Deref, TypeOK
<1>2. refCount' \in [Snapshots -> Int]
  BY <1>1 DEF TypeOK
<1>3. go' = [go EXCEPT ![g] = IF disposes THEN d ELSE r]
  BY DEF Deref, AllOf, TypeOK
<1>4. d \in GoState
  BY DEF GoState, AllOf
<1>5. /\ d.pc = r.pc /\ d.op = r.op /\ d.base = r.base /\ d.new = r.new
      /\ d.build = r.build /\ d.fresh = r.fresh /\ d.disposing = s /\ d.todo = AllOf(s)
  BY DEF GoState
<1> HIDE DEF d
<1>6. /\ go' \in [Goroutines -> GoState] /\ OnlyMoved(go, go', g)
      /\ go'[g] = IF disposes THEN d ELSE r
  BY <1>3, <1>4, Moves
<1> QED
  BY <1>1, <1>2, <1>5, <1>6 DEF Disposes

\* A step that leaves the reference counts alone, or takes a reference to x.
LEMMA StillStep ==
  ASSUME IInv, NEW g \in Goroutines, CachesKept, OnlyMoved(go, go', g),
         go[g].disposing = None, go'[g].disposing = None,
         KeepsBuild(g) \/ StartsBuild(g), Shape(go'[g]), Places',
         UNCHANGED <<refCount, current, closing>>,
         \A s \in Snapshots : \/ Weight(go'[g], s) = Weight(go[g], s)
                              \/ Weight(go'[g], s) <= Weight(go[g], s) /\ closing # "open"
  PROVE  IInv'
<1>1. \A k \in Goroutines : SameDisposal(k)
  BY DEF OnlyMoved, SameDisposal
<1>2. Disposals' /\ HoldsSame
  BY <1>1, RefsStay DEF IInv, TypeOK, CachesKept
<1>3. ASSUME NEW s \in Snapshots
      PROVE  Balanced(s, Weight(go'[g], s) - Weight(go[g], s))
  <2>1. Weight(go'[g], s) \in Nat /\ Weight(go[g], s) \in Nat
    BY WeightType
  <2>2. refCount[s] \in Int
    BY DEF IInv, TypeOK
  <2> QED
    BY <2>1, <2>2 DEF Balanced, SessionHas
<1> QED
  BY <1>2, <1>3, OneStep

LEMMA TakeStep ==
  ASSUME IInv, NEW g \in Goroutines, CachesKept, OnlyMoved(go, go', g),
         go[g].disposing = None, go'[g].disposing = None,
         KeepsBuild(g) \/ StartsBuild(g), Shape(go'[g]), Places',
         NEW x \in Snapshots, refCount[x] >= 1, refCount' = [refCount EXCEPT ![x] = @ + 1],
         UNCHANGED <<current, closing>>,
         \A s \in Snapshots : Weight(go'[g], s) = Weight(go[g], s) + (IF s = x THEN 1 ELSE 0)
  PROVE  IInv'
<1>0. \A s \in Snapshots : /\ refCount[s] \in Int
                           /\ refCount'[s] = refCount[s] + (IF s = x THEN 1 ELSE 0)
  BY DEF IInv, TypeOK
<1>1. \A k \in Goroutines : SameDisposal(k)
  BY DEF OnlyMoved, SameDisposal
<1>2. Disposals' /\ HoldsSame
  <2>1. refCount' \in [Snapshots -> Int] /\ \A s \in Snapshots : refCount'[s] > 0 <=> refCount[s] > 0
    BY <1>0 DEF IInv, TypeOK
  <2> QED
    BY <1>1, <2>1, RefsStay DEF IInv, CachesKept
<1>3. ASSUME NEW s \in Snapshots
      PROVE  Balanced(s, Weight(go'[g], s) - Weight(go[g], s))
  <2>1. Weight(go'[g], s) \in Nat /\ Weight(go[g], s) \in Nat
    BY WeightType
  <2> QED
    BY <1>0, <1>3, <2>1 DEF Balanced, SessionHas
<1> QED
  BY <1>2, <1>3, OneStep

\* A step that gives back a reference to x.
LEMMA DropStep ==
  ASSUME IInv, NEW g \in Goroutines, CachesKept, OnlyMoved(go, go', g), go[g].disposing = None,
         KeepsBuild(g), Shape(go'[g]), Places',
         NEW x \in Snapshots, refCount[x] >= 1, refCount' = [refCount EXCEPT ![x] = @ - 1],
         Disposes(g, x), closing' = "open" => closing = "open",
         \A s \in Snapshots : Weight(go'[g], s) + SessionHas(current', s) + (IF s = x THEN 1 ELSE 0)
                                = Weight(go[g], s) + SessionHas(current, s)
  PROVE  IInv'
<1>0. \A s \in Snapshots : /\ refCount[s] \in Int
                           /\ refCount'[s] = refCount[s] - (IF s = x THEN 1 ELSE 0)
  BY DEF IInv, TypeOK
<1>1. \A k \in Goroutines : k # g => SameDisposal(k)
  BY DEF OnlyMoved, SameDisposal
<1>2. Disposals' /\ HoldsSame
  <2>1. /\ refCount' \in [Snapshots -> Int] /\ refCount'[x] = refCount[x] - 1
        /\ \A s \in Snapshots : s # x => (refCount'[s] > 0 <=> refCount[s] > 0)
    BY <1>0 DEF IInv, TypeOK
  <2> QED
    BY <1>1, <2>1, RefGoes DEF IInv, CachesKept
<1>3. ASSUME NEW s \in Snapshots
      PROVE  Balanced(s, Weight(go'[g], s) - Weight(go[g], s))
  <2>1. /\ Weight(go'[g], s) \in Nat /\ Weight(go[g], s) \in Nat
        /\ SessionHas(current', s) \in Nat /\ SessionHas(current, s) \in Nat
    BY WeightType DEF SessionHas
  <2>2. Weight(go'[g], s) + SessionHas(current', s) + (IF s = x THEN 1 ELSE 0)
          = Weight(go[g], s) + SessionHas(current, s)
    OBVIOUS
  <2>3. refCount[s] \in Int /\ refCount'[s] = refCount[s] - (IF s = x THEN 1 ELSE 0)
    BY <1>0
  <2> QED
    BY <2>1, <2>2, <2>3 DEF Balanced
<1> QED
  BY <1>2, <1>3, OneStep

LEMMA LockForUpdateStep ==
  ASSUME IInv, NEW h \in Handlers, NEW op \in Ops, LockForUpdate(h, op)
  PROVE  IInv'
<1>0. /\ h \in Goroutines /\ h # Closer /\ TypeOK /\ Shape(go[h]) /\ go[h] \in GoState
      /\ go[h].pc = "idle" /\ go[h].disposing = None
      /\ op \in Updates /\ closing = "open" /\ updateMu = None
  BY Here, OpsAssumption DEF LockForUpdate, Ready, Updates
<1>2. /\ go' \in [Goroutines -> GoState] /\ OnlyMoved(go, go', h)
      /\ go'[h].pc = "locked" /\ go'[h].op = op /\ go'[h].base = None /\ go'[h].new = None
      /\ go'[h].build = go[h].build /\ go'[h].fresh = go[h].fresh /\ go'[h].disposing = None
  <2> DEFINE r == [go[h] EXCEPT !.pc = "locked", !.op = op]
  <2>1. go' = [go EXCEPT ![h] = r]
    BY <1>0 DEF LockForUpdate
  <2>2. /\ r \in GoState /\ r.pc = "locked" /\ r.op = op /\ r.base = None /\ r.new = None
        /\ r.build = go[h].build /\ r.fresh = go[h].fresh /\ r.disposing = None
    BY <1>0 DEF GoState, PCs, Shape, Updates
  <2> HIDE DEF r
  <2> QED
    BY <1>0, <2>1, <2>2, Moves
<1>4. Shape(go'[h]) /\ KeepsBuild(h) /\ CachesKept
  BY <1>0, <1>2 DEF LockForUpdate, Shape, KeepsBuild, CachesKept, snapVars, cacheVars
<1>5. Places'
  <2>1. TypeOK'
    BY <1>0, <1>2 DEF LockForUpdate, TypeOK, snapVars, cacheVars, lockVars
  <2>2. Locks'
    BY <1>0, <1>2, Finite DEF LockForUpdate, OnlyMoved, Locks, Updating, IInv, Shape, Updates, lockVars
  <2>3. Closing'
    BY <1>0, <1>2 DEF LockForUpdate, OnlyMoved, Closing, IInv, Goroutines
  <2>4. Unfailed'
    BY <1>0, <1>2, ObjectsAssumption DEF LockForUpdate, OnlyMoved, Unfailed, IInv, Bases, Shape, Updates, snapVars, TypeOK
  <2> QED
    BY <2>1, <2>2, <2>3, <2>4 DEF Places
<1>6. ASSUME NEW s \in Snapshots
      PROVE  Weight(go'[h], s) = Weight(go[h], s)
  BY <1>0, <1>2, ObjectsAssumption DEF LockForUpdate, Weight, BaseWeight, NewWeight, Bases, Owns, Shape, Updates, WantsRef
<1> QED
  BY <1>0, <1>2, <1>4, <1>5, <1>6, StillStep DEF LockForUpdate

LEMMA UpdateUnlockedStep ==
  ASSUME IInv, NEW h \in Handlers, UpdateUnlocked(h)
  PROVE  IInv'
<1>0. /\ h \in Goroutines /\ h # Closer /\ TypeOK /\ Shape(go[h]) /\ go[h] \in GoState
      /\ go[h].pc = "idle" /\ go[h].disposing = None
  BY Here DEF UpdateUnlocked, Ready
<1>2. /\ go' \in [Goroutines -> GoState] /\ OnlyMoved(go, go', h)
      /\ go'[h].pc = "host" /\ go'[h].op = "noref" /\ go'[h].base = None /\ go'[h].new = None
      /\ go'[h].build = go[h].build /\ go'[h].fresh = go[h].fresh /\ go'[h].disposing = None
  <2> DEFINE r == [go[h] EXCEPT !.pc = "host", !.op = "noref"]
  <2>1. go' = [go EXCEPT ![h] = r]
    BY <1>0 DEF UpdateUnlocked
  <2>2. /\ r \in GoState /\ r.pc = "host" /\ r.op = "noref" /\ r.base = None /\ r.new = None
        /\ r.build = go[h].build /\ r.fresh = go[h].fresh /\ r.disposing = None
    BY <1>0 DEF GoState, PCs, Shape
  <2> HIDE DEF r
  <2> QED
    BY <1>0, <2>1, <2>2, Moves
<1>4. Shape(go'[h]) /\ KeepsBuild(h) /\ CachesKept
  BY <1>0, <1>2 DEF UpdateUnlocked, Shape, KeepsBuild, CachesKept, snapVars, cacheVars
<1>5. Places'
  <2>1. TypeOK'
    BY <1>0, <1>2 DEF UpdateUnlocked, TypeOK, snapVars, cacheVars, lockVars
  <2>2. Locks'
    BY <1>0, <1>2 DEF UpdateUnlocked, OnlyMoved, Locks, Updating, IInv, Shape, Updates, lockVars
  <2>3. Closing'
    BY <1>0, <1>2 DEF UpdateUnlocked, OnlyMoved, Closing, IInv, Goroutines
  <2>4. Unfailed'
    BY <1>0, <1>2, ObjectsAssumption DEF UpdateUnlocked, OnlyMoved, Unfailed, IInv, Bases, Shape, Updates, snapVars, TypeOK
  <2> QED
    BY <2>1, <2>2, <2>3, <2>4 DEF Places
<1>6. ASSUME NEW s \in Snapshots
      PROVE  Weight(go'[h], s) = Weight(go[h], s)
  BY <1>0, <1>2, ObjectsAssumption DEF UpdateUnlocked, Weight, BaseWeight, NewWeight, Bases, Owns, Shape, Updates, WantsRef
<1> QED
  BY <1>0, <1>2, <1>4, <1>5, <1>6, StillStep DEF UpdateUnlocked

LEMMA RejectCloneStep ==
  ASSUME IInv, NEW h \in Handlers, RejectClone(h)
  PROVE  IInv'
<1>0. /\ h \in Goroutines /\ h # Closer /\ TypeOK /\ Shape(go[h]) /\ go[h] \in GoState
      /\ go[h].pc = "install" /\ go[h].disposing = None
      /\ snapshotMu' = None /\ go[h].op = "api"
  BY Here DEF RejectClone, Ready, UnlockRejected, Rejects, Unfailed, IInv
<1>2. /\ go' \in [Goroutines -> GoState] /\ OnlyMoved(go, go', h)
      /\ go'[h].pc = "rejected" /\ go'[h].op = go[h].op /\ go'[h].base = None /\ go'[h].new = go[h].new
      /\ go'[h].build = go[h].build /\ go'[h].fresh = go[h].fresh /\ go'[h].disposing = None
  <2> DEFINE r == [go[h] EXCEPT !.pc = "rejected", !.base = None]
  <2>1. go' = [go EXCEPT ![h] = r]
    BY <1>0 DEF RejectClone
  <2>2. /\ r \in GoState /\ r.pc = "rejected" /\ r.op = go[h].op /\ r.base = None /\ r.new = go[h].new
        /\ r.build = go[h].build /\ r.fresh = go[h].fresh /\ r.disposing = None
    BY <1>0 DEF GoState, PCs, Shape
  <2> HIDE DEF r
  <2> QED
    BY <1>0, <2>1, <2>2, Moves
<1>4. Shape(go'[h]) /\ KeepsBuild(h) /\ CachesKept
  BY <1>0, <1>2 DEF RejectClone, Shape, KeepsBuild, CachesKept, snapVars, cacheVars
<1>5. Places'
  <2>1. TypeOK'
    BY <1>0, <1>2 DEF RejectClone, TypeOK, snapVars, cacheVars, lockVars
  <2>2. Locks'
    BY <1>0, <1>2 DEF RejectClone, OnlyMoved, Locks, Updating, IInv, Shape, Updates, lockVars
  <2>3. Closing'
    BY <1>0, <1>2 DEF RejectClone, OnlyMoved, Closing, IInv, Goroutines
  <2>4. Unfailed'
    BY <1>0, <1>2, ObjectsAssumption DEF RejectClone, OnlyMoved, Unfailed, IInv, Bases, Shape, Updates, snapVars, TypeOK
  <2> QED
    BY <2>1, <2>2, <2>3, <2>4 DEF Places
<1>6. ASSUME NEW s \in Snapshots
      PROVE  Weight(go'[h], s) = Weight(go[h], s)
  BY <1>0, <1>2, ObjectsAssumption DEF RejectClone, Weight, BaseWeight, NewWeight, Bases, Owns, Shape, Updates, WantsRef
<1> QED
  BY <1>0, <1>2, <1>4, <1>5, <1>6, StillStep DEF RejectClone

LEMMA UnlockSnapshotStep ==
  ASSUME IInv, NEW h \in Handlers, UnlockSnapshot(h)
  PROVE  IInv'
<1>0. /\ h \in Goroutines /\ h # Closer /\ TypeOK /\ Shape(go[h]) /\ go[h] \in GoState
      /\ go[h].pc = "unlock" /\ go[h].disposing = None
  BY Here DEF UnlockSnapshot, Ready
<1>2. /\ go' \in [Goroutines -> GoState] /\ OnlyMoved(go, go', h)
      /\ go'[h].pc = "enqueue" /\ go'[h].op = go[h].op /\ go'[h].base = None /\ go'[h].new = go[h].new
      /\ go'[h].build = go[h].build /\ go'[h].fresh = go[h].fresh /\ go'[h].disposing = None
  <2> DEFINE r == [go[h] EXCEPT !.pc = "enqueue", !.base = None]
  <2>1. go' = [go EXCEPT ![h] = r]
    BY <1>0 DEF UnlockSnapshot
  <2>2. /\ r \in GoState /\ r.pc = "enqueue" /\ r.op = go[h].op /\ r.base = None /\ r.new = go[h].new
        /\ r.build = go[h].build /\ r.fresh = go[h].fresh /\ r.disposing = None
    BY <1>0 DEF GoState, PCs
  <2> HIDE DEF r
  <2> QED
    BY <1>0, <2>1, <2>2, Moves
<1>4. Shape(go'[h]) /\ KeepsBuild(h) /\ CachesKept
  BY <1>0, <1>2 DEF UnlockSnapshot, Shape, KeepsBuild, CachesKept, snapVars, cacheVars
<1>5. Places'
  <2>1. TypeOK'
    BY <1>0, <1>2 DEF UnlockSnapshot, TypeOK, snapVars, cacheVars, lockVars
  <2>2. Locks'
    BY <1>0, <1>2 DEF UnlockSnapshot, OnlyMoved, Locks, Updating, IInv, Shape, Updates, lockVars
  <2>3. Closing'
    BY <1>0, <1>2 DEF UnlockSnapshot, OnlyMoved, Closing, IInv, Goroutines
  <2>4. Unfailed'
    BY <1>0, <1>2, ObjectsAssumption DEF UnlockSnapshot, OnlyMoved, Unfailed, IInv, Bases, Shape, Updates, snapVars, TypeOK
  <2> QED
    BY <2>1, <2>2, <2>3, <2>4 DEF Places
<1>6. ASSUME NEW s \in Snapshots
      PROVE  Weight(go'[h], s) = Weight(go[h], s)
  BY <1>0, <1>2, ObjectsAssumption DEF UnlockSnapshot, Weight, BaseWeight, NewWeight, Bases, Owns, Shape, Updates, WantsRef
<1> QED
  BY <1>0, <1>2, <1>4, <1>5, <1>6, StillStep DEF UnlockSnapshot

LEMMA RecoverByUpdateStep ==
  ASSUME IInv, NEW h \in Handlers, RecoverHostChanges(h), updateMu' = updateMu,
         go' = [go EXCEPT ![h].pc = "host", ![h].op = "noref"]
  PROVE  IInv'
<1>0. /\ h \in Goroutines /\ h # Closer /\ TypeOK /\ Shape(go[h]) /\ go[h] \in GoState
      /\ go[h].pc = "recover" /\ go[h].disposing = None
  BY Here DEF RecoverHostChanges, Ready
<1>2. /\ go' \in [Goroutines -> GoState] /\ OnlyMoved(go, go', h)
      /\ go'[h].pc = "host" /\ go'[h].op = "noref" /\ go'[h].base = go[h].base /\ go'[h].new = go[h].new
      /\ go'[h].build = go[h].build /\ go'[h].fresh = go[h].fresh /\ go'[h].disposing = None
  <2> DEFINE r == [go[h] EXCEPT !.pc = "host", !.op = "noref"]
  <2>1. go' = [go EXCEPT ![h] = r]
    BY <1>0 DEF RecoverHostChanges
  <2>2. /\ r \in GoState /\ r.pc = "host" /\ r.op = "noref" /\ r.base = go[h].base /\ r.new = go[h].new
        /\ r.build = go[h].build /\ r.fresh = go[h].fresh /\ r.disposing = None
    BY <1>0 DEF GoState, PCs
  <2> HIDE DEF r
  <2> QED
    BY <1>0, <2>1, <2>2, Moves
<1>4. Shape(go'[h]) /\ KeepsBuild(h) /\ CachesKept
  BY <1>0, <1>2 DEF RecoverHostChanges, Shape, KeepsBuild, CachesKept, snapVars, cacheVars
<1>5. Places'
  <2>1. TypeOK'
    BY <1>0, <1>2 DEF RecoverHostChanges, TypeOK, snapVars, cacheVars, lockVars
  <2>2. Locks'
    BY <1>0, <1>2 DEF RecoverHostChanges, OnlyMoved, Locks, Updating, IInv, Shape, Updates, lockVars
  <2>3. Closing'
    BY <1>0, <1>2 DEF RecoverHostChanges, OnlyMoved, Closing, IInv, Goroutines
  <2>4. Unfailed'
    BY <1>0, <1>2, ObjectsAssumption DEF RecoverHostChanges, OnlyMoved, Unfailed, IInv, Bases, Shape, Updates, snapVars, TypeOK
  <2> QED
    BY <2>1, <2>2, <2>3, <2>4 DEF Places
<1>6. ASSUME NEW s \in Snapshots
      PROVE  Weight(go'[h], s) = Weight(go[h], s)
  BY <1>0, <1>2, ObjectsAssumption DEF RecoverHostChanges, Weight, BaseWeight, NewWeight, Bases, Owns, Shape, Updates, WantsRef
<1> QED
  BY <1>0, <1>2, <1>4, <1>5, <1>6, StillStep DEF RecoverHostChanges

LEMMA RecoverNothingStep ==
  ASSUME IInv, NEW h \in Handlers, RecoverHostChanges(h), updateMu' = None,
         go' = [go EXCEPT ![h] = Idle]
  PROVE  IInv'
<1>0. /\ h \in Goroutines /\ h # Closer /\ TypeOK /\ Shape(go[h]) /\ go[h] \in GoState
      /\ go[h].pc = "recover" /\ go[h].disposing = None
  BY Here DEF RecoverHostChanges, Ready
<1>2. /\ go' \in [Goroutines -> GoState] /\ OnlyMoved(go, go', h)
      /\ go'[h].pc = "idle" /\ go'[h].op = "none" /\ go'[h].base = None /\ go'[h].new = None
      /\ go'[h].build = NoPrograms /\ go'[h].fresh = {} /\ go'[h].disposing = None
  <2>1. go' = [go EXCEPT ![h] = Idle]
    BY <1>0 DEF RecoverHostChanges, Idle
  <2> QED
    BY <1>0, <2>1, IdleFields, Moves
<1>4. Shape(go'[h]) /\ KeepsBuild(h) /\ CachesKept
  BY <1>0, <1>2 DEF RecoverHostChanges, Shape, KeepsBuild, CachesKept, snapVars, cacheVars, Idle, NoPrograms
<1>5. Places'
  <2>1. TypeOK'
    BY <1>0, <1>2 DEF RecoverHostChanges, TypeOK, snapVars, cacheVars, lockVars
  <2>2. Locks'
    BY <1>0, <1>2 DEF RecoverHostChanges, OnlyMoved, Locks, Updating, IInv, Shape, Updates, lockVars
  <2>3. Closing'
    BY <1>0, <1>2 DEF RecoverHostChanges, OnlyMoved, Closing, IInv, Goroutines
  <2>4. Unfailed'
    BY <1>0, <1>2, ObjectsAssumption DEF RecoverHostChanges, OnlyMoved, Unfailed, IInv, Bases, Shape, Updates, snapVars, TypeOK
  <2> QED
    BY <2>1, <2>2, <2>3, <2>4 DEF Places
<1>6. ASSUME NEW s \in Snapshots
      PROVE  Weight(go'[h], s) = Weight(go[h], s)
  BY <1>0, <1>2, ObjectsAssumption DEF RecoverHostChanges, Weight, BaseWeight, NewWeight, Bases, Owns, Shape, Updates, WantsRef
<1> QED
  BY <1>0, <1>2, <1>4, <1>5, <1>6, StillStep DEF RecoverHostChanges

LEMMA DropTaskStep ==
  ASSUME IInv, NEW t \in Tasks, DropTask(t)
  PROVE  IInv'
<1>0. /\ t \in Goroutines /\ t # Closer /\ TypeOK /\ Shape(go[t]) /\ go[t] \in GoState
      /\ go[t].pc = "start" /\ go[t].disposing = None
  BY Here DEF DropTask, Ready
<1>2. /\ go' \in [Goroutines -> GoState] /\ OnlyMoved(go, go', t)
      /\ go'[t].pc = "idle" /\ go'[t].op = "none" /\ go'[t].base = None /\ go'[t].new = None
      /\ go'[t].build = NoPrograms /\ go'[t].fresh = {} /\ go'[t].disposing = None
  <2>1. go' = [go EXCEPT ![t] = Idle]
    BY <1>0 DEF DropTask, Idle
  <2> QED
    BY <1>0, <2>1, IdleFields, Moves
<1>4. Shape(go'[t]) /\ KeepsBuild(t) /\ CachesKept
  BY <1>0, <1>2 DEF DropTask, Shape, KeepsBuild, CachesKept, snapVars, cacheVars, Idle, NoPrograms
<1>5. Places'
  <2>1. TypeOK'
    BY <1>0, <1>2 DEF DropTask, TypeOK, snapVars, cacheVars, lockVars
  <2>2. Locks'
    BY <1>0, <1>2 DEF DropTask, OnlyMoved, Locks, Updating, IInv, Shape, Updates, lockVars
  <2>3. Closing'
    BY <1>0, <1>2 DEF DropTask, OnlyMoved, Closing, IInv, Goroutines
  <2>4. Unfailed'
    BY <1>0, <1>2, ObjectsAssumption DEF DropTask, OnlyMoved, Unfailed, IInv, Bases, Shape, Updates, snapVars, TypeOK
  <2> QED
    BY <2>1, <2>2, <2>3, <2>4 DEF Places
<1>6. ASSUME NEW s \in Snapshots
      PROVE  Weight(go'[t], s) <= Weight(go[t], s) /\ closing # "open"
  BY <1>0, <1>2, ObjectsAssumption DEF DropTask, Weight, BaseWeight, NewWeight, Bases, Owns, Shape, Updates, WantsRef
<1> QED
  BY <1>0, <1>2, <1>4, <1>5, <1>6, StillStep DEF DropTask

LEMMA RunAdoptStep ==
  ASSUME IInv, NEW t \in Tasks, RunAdopt(t)
  PROVE  IInv'
<1>0. /\ t \in Goroutines /\ t # Closer /\ TypeOK /\ Shape(go[t]) /\ go[t] \in GoState
      /\ go[t].pc = "start" /\ go[t].disposing = None
      /\ go[t].op = "adopt"
  BY Here DEF RunAdopt, Ready
<1>2. /\ go' \in [Goroutines -> GoState] /\ OnlyMoved(go, go', t)
      /\ go'[t].pc = "adopt" /\ go'[t].op = "adopt" /\ go'[t].base = go[t].base /\ go'[t].new = go[t].new
      /\ go'[t].build = go[t].build /\ go'[t].fresh = go[t].fresh /\ go'[t].disposing = None
  <2> DEFINE r == [go[t] EXCEPT !.pc = "adopt"]
  <2>1. go' = [go EXCEPT ![t] = r]
    BY <1>0 DEF RunAdopt
  <2>2. /\ r \in GoState /\ r.pc = "adopt" /\ r.op = "adopt" /\ r.base = go[t].base /\ r.new = go[t].new
        /\ r.build = go[t].build /\ r.fresh = go[t].fresh /\ r.disposing = None
    BY <1>0 DEF GoState, PCs
  <2> HIDE DEF r
  <2> QED
    BY <1>0, <2>1, <2>2, Moves
<1>4. Shape(go'[t]) /\ KeepsBuild(t) /\ CachesKept
  BY <1>0, <1>2 DEF RunAdopt, Shape, KeepsBuild, CachesKept, snapVars, cacheVars
<1>5. Places'
  <2>1. TypeOK'
    BY <1>0, <1>2 DEF RunAdopt, TypeOK, snapVars, cacheVars, lockVars
  <2>2. Locks'
    BY <1>0, <1>2 DEF RunAdopt, OnlyMoved, Locks, Updating, IInv, Shape, Updates, lockVars
  <2>3. Closing'
    BY <1>0, <1>2 DEF RunAdopt, OnlyMoved, Closing, IInv, Goroutines
  <2>4. Unfailed'
    BY <1>0, <1>2, ObjectsAssumption DEF RunAdopt, OnlyMoved, Unfailed, IInv, Bases, Shape, Updates, snapVars, TypeOK
  <2> QED
    BY <2>1, <2>2, <2>3, <2>4 DEF Places
<1>6. ASSUME NEW s \in Snapshots
      PROVE  Weight(go'[t], s) = Weight(go[t], s)
  BY <1>0, <1>2, ObjectsAssumption DEF RunAdopt, Weight, BaseWeight, NewWeight, Bases, Owns, Shape, Updates, WantsRef
<1> QED
  BY <1>0, <1>2, <1>4, <1>5, <1>6, StillStep DEF RunAdopt

LEMMA RunWarmTooLateStep ==
  ASSUME IInv, NEW t \in Tasks, RunWarm(t), ~TryRef(go[t].new)
  PROVE  IInv'
<1>0. /\ t \in Goroutines /\ t # Closer /\ TypeOK /\ Shape(go[t]) /\ go[t] \in GoState
      /\ go[t].pc = "start" /\ go[t].disposing = None
      /\ go[t].op = "warm"
  BY Here DEF RunWarm, Ready
<1>2. /\ go' \in [Goroutines -> GoState] /\ OnlyMoved(go, go', t)
      /\ go'[t].pc = "idle" /\ go'[t].op = "none" /\ go'[t].base = None /\ go'[t].new = None
      /\ go'[t].build = NoPrograms /\ go'[t].fresh = {} /\ go'[t].disposing = None
  <2>1. go' = [go EXCEPT ![t] = Idle]
    BY <1>0 DEF RunWarm, Idle
  <2> QED
    BY <1>0, <2>1, IdleFields, Moves
<1>4. Shape(go'[t]) /\ KeepsBuild(t) /\ CachesKept
  BY <1>0, <1>2 DEF RunWarm, Shape, KeepsBuild, CachesKept, snapVars, cacheVars, Idle, NoPrograms
<1>5. Places'
  <2>1. TypeOK'
    BY <1>0, <1>2 DEF RunWarm, TypeOK, snapVars, cacheVars, lockVars
  <2>2. Locks'
    BY <1>0, <1>2 DEF RunWarm, OnlyMoved, Locks, Updating, IInv, Shape, Updates, lockVars
  <2>3. Closing'
    BY <1>0, <1>2 DEF RunWarm, OnlyMoved, Closing, IInv, Goroutines
  <2>4. Unfailed'
    BY <1>0, <1>2, ObjectsAssumption DEF RunWarm, OnlyMoved, Unfailed, IInv, Bases, Shape, Updates, snapVars, TypeOK
  <2> QED
    BY <2>1, <2>2, <2>3, <2>4 DEF Places
<1>6. ASSUME NEW s \in Snapshots
      PROVE  Weight(go'[t], s) = Weight(go[t], s)
  BY <1>0, <1>2, ObjectsAssumption DEF RunWarm, Weight, BaseWeight, NewWeight, Bases, Owns, Shape, Updates, WantsRef
<1> QED
  BY <1>0, <1>2, <1>4, <1>5, <1>6, StillStep DEF RunWarm

LEMMA WarmedAdoptsStep ==
  ASSUME IInv, NEW t \in Tasks, Warmed(t), go' = [go EXCEPT ![t].pc = "adopt"], UNCHANGED <<refCount, panicked>>
  PROVE  IInv'
<1>0. /\ t \in Goroutines /\ t # Closer /\ TypeOK /\ Shape(go[t]) /\ go[t] \in GoState
      /\ go[t].pc = "warmed" /\ go[t].disposing = None
  BY Here DEF Warmed, Ready
<1>2. /\ go' \in [Goroutines -> GoState] /\ OnlyMoved(go, go', t)
      /\ go'[t].pc = "adopt" /\ go'[t].op = go[t].op /\ go'[t].base = go[t].base /\ go'[t].new = go[t].new
      /\ go'[t].build = go[t].build /\ go'[t].fresh = go[t].fresh /\ go'[t].disposing = None
  <2> DEFINE r == [go[t] EXCEPT !.pc = "adopt"]
  <2>1. go' = [go EXCEPT ![t] = r]
    BY <1>0 DEF Warmed
  <2>2. /\ r \in GoState /\ r.pc = "adopt" /\ r.op = go[t].op /\ r.base = go[t].base /\ r.new = go[t].new
        /\ r.build = go[t].build /\ r.fresh = go[t].fresh /\ r.disposing = None
    BY <1>0 DEF GoState, PCs
  <2> HIDE DEF r
  <2> QED
    BY <1>0, <2>1, <2>2, Moves
<1>4. Shape(go'[t]) /\ KeepsBuild(t) /\ CachesKept
  BY <1>0, <1>2 DEF Warmed, Shape, KeepsBuild, CachesKept, snapVars, cacheVars
<1>5. Places'
  <2>1. TypeOK'
    BY <1>0, <1>2 DEF Warmed, TypeOK, snapVars, cacheVars, lockVars
  <2>2. Locks'
    BY <1>0, <1>2 DEF Warmed, OnlyMoved, Locks, Updating, IInv, Shape, Updates, lockVars
  <2>3. Closing'
    BY <1>0, <1>2 DEF Warmed, OnlyMoved, Closing, IInv, Goroutines
  <2>4. Unfailed'
    BY <1>0, <1>2, ObjectsAssumption DEF Warmed, OnlyMoved, Unfailed, IInv, Bases, Shape, Updates, snapVars, TypeOK
  <2> QED
    BY <2>1, <2>2, <2>3, <2>4 DEF Places
<1>6. ASSUME NEW s \in Snapshots
      PROVE  Weight(go'[t], s) = Weight(go[t], s)
  BY <1>0, <1>2, ObjectsAssumption DEF Warmed, Weight, BaseWeight, NewWeight, Bases, Owns, Shape, Updates, WantsRef
<1> QED
  BY <1>0, <1>2, <1>4, <1>5, <1>6, StillStep DEF Warmed

LEMMA AdoptTooLateStep ==
  ASSUME IInv, NEW t \in Tasks, Adopt(t), MovedOn(t)
  PROVE  IInv'
<1>0. /\ t \in Goroutines /\ t # Closer /\ TypeOK /\ Shape(go[t]) /\ go[t] \in GoState
      /\ go[t].pc = "adopt" /\ go[t].disposing = None
  BY Here DEF Adopt, Ready
<1>2. /\ go' \in [Goroutines -> GoState] /\ OnlyMoved(go, go', t)
      /\ go'[t].pc = "lost" /\ go'[t].op = go[t].op /\ go'[t].base = go[t].base /\ go'[t].new = go[t].new
      /\ go'[t].build = go[t].build /\ go'[t].fresh = go[t].fresh /\ go'[t].disposing = None
  <2> DEFINE r == [go[t] EXCEPT !.pc = "lost"]
  <2>1. go' = [go EXCEPT ![t] = r]
    BY <1>0 DEF Adopt
  <2>2. /\ r \in GoState /\ r.pc = "lost" /\ r.op = go[t].op /\ r.base = go[t].base /\ r.new = go[t].new
        /\ r.build = go[t].build /\ r.fresh = go[t].fresh /\ r.disposing = None
    BY <1>0 DEF GoState, PCs
  <2> HIDE DEF r
  <2> QED
    BY <1>0, <2>1, <2>2, Moves
<1>4. Shape(go'[t]) /\ KeepsBuild(t) /\ CachesKept
  BY <1>0, <1>2 DEF Adopt, Shape, KeepsBuild, CachesKept, snapVars, cacheVars
<1>5. Places'
  <2>1. TypeOK'
    BY <1>0, <1>2 DEF Adopt, TypeOK, snapVars, cacheVars, lockVars
  <2>2. Locks'
    BY <1>0, <1>2 DEF Adopt, OnlyMoved, Locks, Updating, IInv, Shape, Updates, lockVars
  <2>3. Closing'
    BY <1>0, <1>2 DEF Adopt, OnlyMoved, Closing, IInv, Goroutines
  <2>4. Unfailed'
    BY <1>0, <1>2, ObjectsAssumption DEF Adopt, OnlyMoved, Unfailed, IInv, Bases, Shape, Updates, snapVars, TypeOK
  <2> QED
    BY <2>1, <2>2, <2>3, <2>4 DEF Places
<1>6. ASSUME NEW s \in Snapshots
      PROVE  Weight(go'[t], s) = Weight(go[t], s)
  BY <1>0, <1>2, ObjectsAssumption DEF Adopt, Weight, BaseWeight, NewWeight, Bases, Owns, Shape, Updates, WantsRef
<1> QED
  BY <1>0, <1>2, <1>4, <1>5, <1>6, StillStep DEF Adopt

LEMMA AdoptedStep ==
  ASSUME IInv, NEW t \in Tasks, Adopted(t), go[t].op = "adopt"
  PROVE  IInv'
<1>0. /\ t \in Goroutines /\ t # Closer /\ TypeOK /\ Shape(go[t]) /\ go[t] \in GoState
      /\ go[t].pc = "adopted" /\ go[t].disposing = None
  BY Here DEF Adopted, Ready
<1>2. /\ go' \in [Goroutines -> GoState] /\ OnlyMoved(go, go', t)
      /\ go'[t].pc = "idle" /\ go'[t].op = "none" /\ go'[t].base = None /\ go'[t].new = None
      /\ go'[t].build = NoPrograms /\ go'[t].fresh = {} /\ go'[t].disposing = None
  <2>1. go' = [go EXCEPT ![t] = Idle]
    BY <1>0 DEF Adopted, AfterAdopt
  <2> QED
    BY <1>0, <2>1, IdleFields, Moves
<1>4. Shape(go'[t]) /\ KeepsBuild(t) /\ CachesKept
  BY <1>0, <1>2 DEF Adopted, Shape, KeepsBuild, CachesKept, snapVars, cacheVars, Idle, NoPrograms
<1>5. Places'
  <2>1. TypeOK'
    BY <1>0, <1>2 DEF Adopted, TypeOK, snapVars, cacheVars, lockVars
  <2>2. Locks'
    BY <1>0, <1>2 DEF Adopted, OnlyMoved, Locks, Updating, IInv, Shape, Updates, lockVars
  <2>3. Closing'
    BY <1>0, <1>2 DEF Adopted, OnlyMoved, Closing, IInv, Goroutines
  <2>4. Unfailed'
    BY <1>0, <1>2, ObjectsAssumption DEF Adopted, OnlyMoved, Unfailed, IInv, Bases, Shape, Updates, snapVars, TypeOK
  <2> QED
    BY <2>1, <2>2, <2>3, <2>4 DEF Places
<1>6. ASSUME NEW s \in Snapshots
      PROVE  Weight(go'[t], s) = Weight(go[t], s)
  BY <1>0, <1>2, ObjectsAssumption DEF Adopted, Weight, BaseWeight, NewWeight, Bases, Owns, Shape, Updates, WantsRef
<1> QED
  BY <1>0, <1>2, <1>4, <1>5, <1>6, StillStep DEF Adopted

LEMMA AdoptedWarmStep ==
  ASSUME IInv, NEW t \in Tasks, Adopted(t), go[t].op = "warm"
  PROVE  IInv'
<1>0. /\ t \in Goroutines /\ t # Closer /\ TypeOK /\ Shape(go[t]) /\ go[t] \in GoState
      /\ go[t].pc = "adopted" /\ go[t].disposing = None
  BY Here DEF Adopted, Ready
<1>2. /\ go' \in [Goroutines -> GoState] /\ OnlyMoved(go, go', t)
      /\ go'[t].pc = "warmEnd" /\ go'[t].op = "warm" /\ go'[t].base = go[t].base /\ go'[t].new = None
      /\ go'[t].build = go[t].build /\ go'[t].fresh = go[t].fresh /\ go'[t].disposing = None
  <2> DEFINE r == [go[t] EXCEPT !.pc = "warmEnd", !.new = None]
  <2>1. go' = [go EXCEPT ![t] = r]
    BY <1>0 DEF Adopted, AfterAdopt
  <2>2. /\ r \in GoState /\ r.pc = "warmEnd" /\ r.op = "warm" /\ r.base = go[t].base /\ r.new = None
        /\ r.build = go[t].build /\ r.fresh = go[t].fresh /\ r.disposing = None
    BY <1>0 DEF GoState, PCs
  <2> HIDE DEF r
  <2> QED
    BY <1>0, <2>1, <2>2, Moves
<1>4. Shape(go'[t]) /\ KeepsBuild(t) /\ CachesKept
  BY <1>0, <1>2 DEF Adopted, Shape, KeepsBuild, CachesKept, snapVars, cacheVars
<1>5. Places'
  <2>1. TypeOK'
    BY <1>0, <1>2 DEF Adopted, TypeOK, snapVars, cacheVars, lockVars
  <2>2. Locks'
    BY <1>0, <1>2 DEF Adopted, OnlyMoved, Locks, Updating, IInv, Shape, Updates, lockVars
  <2>3. Closing'
    BY <1>0, <1>2 DEF Adopted, OnlyMoved, Closing, IInv, Goroutines
  <2>4. Unfailed'
    BY <1>0, <1>2, ObjectsAssumption DEF Adopted, OnlyMoved, Unfailed, IInv, Bases, Shape, Updates, snapVars, TypeOK
  <2> QED
    BY <2>1, <2>2, <2>3, <2>4 DEF Places
<1>6. ASSUME NEW s \in Snapshots
      PROVE  Weight(go'[t], s) = Weight(go[t], s)
  BY <1>0, <1>2, ObjectsAssumption DEF Adopted, Weight, BaseWeight, NewWeight, Bases, Owns, Shape, Updates, WantsRef
<1> QED
  BY <1>0, <1>2, <1>4, <1>5, <1>6, StillStep DEF Adopted

LEMMA ReuseNoRefStep ==
  ASSUME IInv, NEW h \in Handlers, ReuseSnapshot(h), ~WantsRef(go[h].op)
  PROVE  IInv'
<1>0. /\ h \in Goroutines /\ h # Closer /\ TypeOK /\ Shape(go[h]) /\ go[h] \in GoState
      /\ go[h].pc = "locked" /\ go[h].disposing = None
  BY Here DEF ReuseSnapshot, Ready
<1>2. /\ go' \in [Goroutines -> GoState] /\ OnlyMoved(go, go', h)
      /\ go'[h].pc = "idle" /\ go'[h].op = "none" /\ go'[h].base = None /\ go'[h].new = None
      /\ go'[h].build = NoPrograms /\ go'[h].fresh = {} /\ go'[h].disposing = None
  <2>1. go' = [go EXCEPT ![h] = Idle]
    BY <1>0 DEF ReuseSnapshot, Idle
  <2> QED
    BY <1>0, <2>1, IdleFields, Moves
<1>4. Shape(go'[h]) /\ KeepsBuild(h) /\ CachesKept
  BY <1>0, <1>2 DEF ReuseSnapshot, Shape, KeepsBuild, CachesKept, snapVars, cacheVars, Idle, NoPrograms
<1>5. Places'
  <2>1. TypeOK'
    BY <1>0, <1>2 DEF ReuseSnapshot, TypeOK, snapVars, cacheVars, lockVars
  <2>2. Locks'
    BY <1>0, <1>2 DEF ReuseSnapshot, OnlyMoved, Locks, Updating, IInv, Shape, Updates, lockVars
  <2>3. Closing'
    BY <1>0, <1>2 DEF ReuseSnapshot, OnlyMoved, Closing, IInv, Goroutines
  <2>4. Unfailed'
    BY <1>0, <1>2, ObjectsAssumption DEF ReuseSnapshot, OnlyMoved, Unfailed, IInv, Bases, Shape, Updates, snapVars, TypeOK
  <2> QED
    BY <2>1, <2>2, <2>3, <2>4 DEF Places
<1>6. ASSUME NEW s \in Snapshots
      PROVE  Weight(go'[h], s) = Weight(go[h], s)
  BY <1>0, <1>2, ObjectsAssumption DEF ReuseSnapshot, Weight, BaseWeight, NewWeight, Bases, Owns, Shape, Updates, WantsRef
<1> QED
  BY <1>0, <1>2, <1>4, <1>5, <1>6, StillStep DEF ReuseSnapshot

LEMMA ReuseRefStep ==
  ASSUME IInv, NEW h \in Handlers, ReuseSnapshot(h), WantsRef(go[h].op)
  PROVE  IInv'
<1>0. /\ h \in Goroutines /\ h # Closer /\ TypeOK /\ Shape(go[h]) /\ go[h] \in GoState
      /\ go[h].pc = "locked" /\ go[h].disposing = None
      /\ go[h].op = "handle"
  BY Here DEF ReuseSnapshot, Ready, WantsRef
<1>1. current \in Snapshots /\ refCount[current] \in Int /\ refCount[current] >= 1
  <2>1. current \in Snapshots
    BY <1>0, ObjectsAssumption DEF IInv, Locks, Closing, TypeOK
  <2>2. refCount[current] \in Int /\ refCount[current] >= 1
    BY <1>0, <2>1, Alive DEF IInv, Counts, Bases
  <2> QED
    BY <2>1, <2>2
<1>2. /\ go' \in [Goroutines -> GoState] /\ OnlyMoved(go, go', h)
      /\ go'[h].pc = "using" /\ go'[h].op = "handle" /\ go'[h].base = current /\ go'[h].new = go[h].new
      /\ go'[h].build = go[h].build /\ go'[h].fresh = go[h].fresh /\ go'[h].disposing = None
  <2> DEFINE r == [go[h] EXCEPT !.pc = "using", !.base = current]
  <2>1. go' = [go EXCEPT ![h] = r]
    BY <1>0 DEF ReuseSnapshot
  <2>2. /\ r \in GoState /\ r.pc = "using" /\ r.op = "handle" /\ r.base = current /\ r.new = go[h].new
        /\ r.build = go[h].build /\ r.fresh = go[h].fresh /\ r.disposing = None
    BY <1>0, <1>1 DEF GoState, PCs, TypeOK
  <2> HIDE DEF r
  <2> QED
    BY <1>0, <2>1, <2>2, Moves
<1>3. refCount' = [refCount EXCEPT ![current] = @ + 1] /\ panicked' = panicked
  BY <1>0, <1>1 DEF ReuseSnapshot, RefPanics, TypeOK
<1>4. Shape(go'[h]) /\ KeepsBuild(h) /\ CachesKept
  BY <1>0, <1>2, <1>1, <1>3 DEF ReuseSnapshot, Shape, KeepsBuild, CachesKept, snapVars, cacheVars
<1>5. Places'
  <2>1. TypeOK'
    BY <1>0, <1>2, <1>1, <1>3 DEF ReuseSnapshot, TypeOK, snapVars, cacheVars, lockVars
  <2>2. Locks'
    BY <1>0, <1>2, <1>1, <1>3 DEF ReuseSnapshot, OnlyMoved, Locks, Updating, IInv, Shape, Updates, lockVars
  <2>3. Closing'
    BY <1>0, <1>2 DEF ReuseSnapshot, OnlyMoved, Closing, IInv, Goroutines
  <2>4. Unfailed'
    BY <1>0, <1>2, <1>1, <1>3, ObjectsAssumption DEF ReuseSnapshot, OnlyMoved, Unfailed, IInv, Bases, Shape, Updates, snapVars, TypeOK
  <2> QED
    BY <2>1, <2>2, <2>3, <2>4 DEF Places
<1>6. ASSUME NEW s \in Snapshots
      PROVE  Weight(go'[h], s) = Weight(go[h], s) + (IF s = current THEN 1 ELSE 0)
  BY <1>0, <1>2, <1>1, <1>3, ObjectsAssumption DEF ReuseSnapshot, Weight, BaseWeight, NewWeight, Bases, Owns, Shape, Updates, WantsRef
<1> QED
  BY <1>0, <1>1, <1>2, <1>3, <1>4, <1>5, <1>6, TakeStep DEF ReuseSnapshot, CachesKept

LEMMA BeginPublishStep ==
  ASSUME IInv, NEW t \in Tasks, BeginPublish(t)
  PROVE  IInv'
<1>0. /\ t \in Goroutines /\ t # Closer /\ TypeOK /\ Shape(go[t]) /\ go[t] \in GoState
      /\ go[t].pc = "idle" /\ go[t].disposing = None
      /\ closing = "open"
  BY Here DEF BeginPublish, Ready
<1>1. current \in Snapshots /\ refCount[current] \in Int /\ refCount[current] >= 1
  <2>1. current \in Snapshots
    BY <1>0, ObjectsAssumption DEF IInv, Closing, TypeOK
  <2>2. refCount[current] \in Int /\ refCount[current] >= 1
    BY <1>0, <2>1, Alive DEF IInv, Counts, Bases
  <2> QED
    BY <2>1, <2>2
<1>2. /\ go' \in [Goroutines -> GoState] /\ OnlyMoved(go, go', t)
      /\ go'[t].pc = "publish" /\ go'[t].op = "publish" /\ go'[t].base = current /\ go'[t].new = None
      /\ go'[t].build = go[t].build /\ go'[t].fresh = go[t].fresh /\ go'[t].disposing = None
  <2> DEFINE r == [go[t] EXCEPT !.pc = "publish", !.op = "publish", !.base = current]
  <2>1. go' = [go EXCEPT ![t] = r]
    BY <1>0 DEF BeginPublish
  <2>2. /\ r \in GoState /\ r.pc = "publish" /\ r.op = "publish" /\ r.base = current /\ r.new = None
        /\ r.build = go[t].build /\ r.fresh = go[t].fresh /\ r.disposing = None
    BY <1>0, <1>1 DEF GoState, PCs, TypeOK, Shape
  <2> HIDE DEF r
  <2> QED
    BY <1>0, <2>1, <2>2, Moves
<1>3. refCount' = [refCount EXCEPT ![current] = @ + 1] /\ panicked' = panicked
  BY <1>0, <1>1 DEF BeginPublish, RefPanics, TypeOK
<1>4. Shape(go'[t]) /\ KeepsBuild(t) /\ CachesKept
  BY <1>0, <1>2, <1>1, <1>3 DEF BeginPublish, Shape, KeepsBuild, CachesKept, snapVars, cacheVars
<1>5. Places'
  <2>1. TypeOK'
    BY <1>0, <1>2, <1>1, <1>3 DEF BeginPublish, TypeOK, snapVars, cacheVars, lockVars
  <2>2. Locks'
    BY <1>0, <1>2, <1>1, <1>3 DEF BeginPublish, OnlyMoved, Locks, Updating, IInv, Shape, Updates, lockVars
  <2>3. Closing'
    BY <1>0, <1>2 DEF BeginPublish, OnlyMoved, Closing, IInv, Goroutines
  <2>4. Unfailed'
    BY <1>0, <1>2, <1>1, <1>3, ObjectsAssumption DEF BeginPublish, OnlyMoved, Unfailed, IInv, Bases, Shape, Updates, snapVars, TypeOK
  <2> QED
    BY <2>1, <2>2, <2>3, <2>4 DEF Places
<1>6. ASSUME NEW s \in Snapshots
      PROVE  Weight(go'[t], s) = Weight(go[t], s) + (IF s = current THEN 1 ELSE 0)
  BY <1>0, <1>2, <1>1, <1>3, ObjectsAssumption DEF BeginPublish, Weight, BaseWeight, NewWeight, Bases, Owns, Shape, Updates, WantsRef
<1> QED
  BY <1>0, <1>1, <1>2, <1>3, <1>4, <1>5, <1>6, TakeStep DEF BeginPublish, CachesKept

LEMMA PrepareStep ==
  ASSUME IInv, NEW h \in Handlers, Prepare(h)
  PROVE  IInv'
<1>0. /\ h \in Goroutines /\ h # Closer /\ TypeOK /\ Shape(go[h]) /\ go[h] \in GoState
      /\ go[h].pc = "using" /\ go[h].disposing = None
  BY Here DEF Prepare, Ready
<1>1. go[h].base \in Snapshots /\ refCount[go[h].base] \in Int /\ refCount[go[h].base] >= 1 /\ go[h].base \notin apiError
  <2>1. go[h].base \in Snapshots /\ go[h].base \notin apiError
    BY <1>0, ObjectsAssumption DEF IInv, Shape, Unfailed, Bases
  <2>2. refCount[go[h].base] \in Int /\ refCount[go[h].base] >= 1
    BY <1>0, <2>1, Alive DEF IInv, Counts, Bases
  <2> QED
    BY <2>1, <2>2
<1>2. /\ go' \in [Goroutines -> GoState] /\ OnlyMoved(go, go', h)
      /\ go'[h].pc = "cloning" /\ go'[h].op = "prepare" /\ go'[h].base = go[h].base /\ go'[h].new = go[h].new
      /\ go'[h].build = programs[go[h].base] /\ go'[h].fresh = {} /\ go'[h].disposing = None
      /\ panicked' = panicked
  <2> DEFINE q == go[h]
  <2>1. q \in GoState /\ q.new = go[h].new /\ q.disposing = None /\ go = [go EXCEPT ![h] = q]
    BY <1>0 DEF TypeOK
  <2>2. StartClone(h, [go EXCEPT ![h] = q], "prepare", go[h].base)
    BY <1>0, <2>1 DEF Prepare
  <2>3. "prepare" \in {"handle", "noref", "api", "prepare", "warm"}
    BY <1>0 DEF Shape, Updates
  <2> HIDE DEF q
  <2> QED
    BY <1>0, <1>1, <2>1, <2>2, <2>3, Starts
<1>3. refCount' = refCount
  BY DEF Prepare
<1>4. Shape(go'[h]) /\ StartsBuild(h) /\ CachesKept
  BY <1>0, <1>2, <1>1, <1>3 DEF Prepare, Shape, StartsBuild, CachesKept, snapVars, cacheVars
<1>5. Places'
  <2>1. TypeOK'
    BY <1>0, <1>2, <1>1, <1>3 DEF Prepare, TypeOK, snapVars, cacheVars, lockVars
  <2>2. Locks'
    BY <1>0, <1>2, <1>1, <1>3 DEF Prepare, OnlyMoved, Locks, Updating, IInv, Shape, Updates, lockVars
  <2>3. Closing'
    BY <1>0, <1>2 DEF Prepare, OnlyMoved, Closing, IInv, Goroutines
  <2>4. Unfailed'
    BY <1>0, <1>2, <1>1, <1>3, ObjectsAssumption DEF Prepare, OnlyMoved, Unfailed, IInv, Bases, Shape, Updates, snapVars, TypeOK
  <2> QED
    BY <2>1, <2>2, <2>3, <2>4 DEF Places
<1>6. ASSUME NEW s \in Snapshots
      PROVE  Weight(go'[h], s) = Weight(go[h], s)
  BY <1>0, <1>2, <1>1, <1>3, ObjectsAssumption DEF Prepare, Weight, BaseWeight, NewWeight, Bases, Owns, Shape, Updates, WantsRef
<1> QED
  BY <1>0, <1>2, <1>3, <1>4, <1>5, <1>6, StillStep DEF Prepare

LEMMA BeginUpdateStep ==
  ASSUME IInv, NEW h \in Handlers, BeginUpdate(h)
  PROVE  IInv'
<1>0. /\ h \in Goroutines /\ h # Closer /\ TypeOK /\ Shape(go[h]) /\ go[h] \in GoState
      /\ go[h].pc \in {"locked", "host"} /\ go[h].disposing = None
  BY Here DEF BeginUpdate, Ready
<1>1. current \in Snapshots /\ refCount[current] \in Int /\ refCount[current] >= 1 /\ current \notin apiError
  <2>1. current \in Snapshots /\ current \notin apiError
    BY <1>0, ObjectsAssumption DEF IInv, Locks, Closing, Unfailed, TypeOK
  <2>2. refCount[current] \in Int /\ refCount[current] >= 1
    BY <1>0, <2>1, Alive DEF IInv, Counts, Bases
  <2> QED
    BY <2>1, <2>2
<1>2. /\ go' \in [Goroutines -> GoState] /\ OnlyMoved(go, go', h)
      /\ go'[h].pc = "cloning" /\ go'[h].op = go[h].op /\ go'[h].base = current /\ go'[h].new = go[h].new
      /\ go'[h].build = programs[current] /\ go'[h].fresh = {} /\ go'[h].disposing = None
      /\ panicked' = panicked
  <2> DEFINE q == go[h]
  <2>1. q \in GoState /\ q.new = go[h].new /\ q.disposing = None /\ go = [go EXCEPT ![h] = q]
    BY <1>0 DEF TypeOK
  <2>2. StartClone(h, [go EXCEPT ![h] = q], go[h].op, current)
    BY <1>0, <2>1 DEF BeginUpdate
  <2>3. go[h].op \in {"handle", "noref", "api", "prepare", "warm"}
    BY <1>0 DEF Shape, Updates
  <2> HIDE DEF q
  <2> QED
    BY <1>0, <1>1, <2>1, <2>2, <2>3, Starts
<1>3. refCount' = refCount
  BY DEF BeginUpdate
<1>4. Shape(go'[h]) /\ StartsBuild(h) /\ CachesKept
  <2>1. go[h].op \in Updates /\ go[h].fresh = {}
    BY <1>0 DEF Shape, Updates
  <2>2. Shape(go'[h])
    BY <1>1, <1>2, <2>1 DEF Shape
  <2>3. StartsBuild(h)
    BY <1>1, <1>2, <2>1 DEF StartsBuild
  <2> QED
    BY <1>2, <2>2, <2>3 DEF BeginUpdate, CachesKept, snapVars, cacheVars
<1>5. Places'
  <2>1. TypeOK'
    BY <1>0, <1>2, <1>1, <1>3 DEF BeginUpdate, TypeOK, snapVars, cacheVars, lockVars
  <2>2. Locks'
    BY <1>0, <1>2, <1>1, <1>3, Finite DEF BeginUpdate, OnlyMoved, Locks, Updating, IInv, Shape, Updates, lockVars
  <2>3. Closing'
    BY <1>0, <1>2 DEF BeginUpdate, OnlyMoved, Closing, IInv, Goroutines
  <2>4. Unfailed'
    BY <1>0, <1>2, <1>1, <1>3, ObjectsAssumption DEF BeginUpdate, OnlyMoved, Unfailed, IInv, Bases, Shape, Updates, snapVars, TypeOK
  <2> QED
    BY <2>1, <2>2, <2>3, <2>4 DEF Places
<1>6. ASSUME NEW s \in Snapshots
      PROVE  Weight(go'[h], s) = Weight(go[h], s)
  BY <1>0, <1>2, <1>1, <1>3, ObjectsAssumption DEF BeginUpdate, Weight, BaseWeight, NewWeight, Bases, Owns, Shape, Updates, WantsRef
<1> QED
  BY <1>0, <1>2, <1>3, <1>4, <1>5, <1>6, StillStep DEF BeginUpdate

LEMMA RunWarmStep ==
  ASSUME IInv, NEW t \in Tasks, RunWarm(t), TryRef(go[t].new)
  PROVE  IInv'
<1>0. /\ t \in Goroutines /\ t # Closer /\ TypeOK /\ Shape(go[t]) /\ go[t] \in GoState
      /\ go[t].pc = "start" /\ go[t].disposing = None
      /\ go[t].op = "warm"
  BY Here DEF RunWarm, Ready
<1>1. go[t].new \in Snapshots /\ refCount[go[t].new] \in Int /\ refCount[go[t].new] >= 1 /\ go[t].new \notin apiError
  <2>1. go[t].new \in Snapshots /\ go[t].new \notin apiError
    BY <1>0 DEF IInv, Shape, Unfailed
  <2>2. refCount[go[t].new] \in Int /\ refCount[go[t].new] >= 1
    BY <1>0, <2>1 DEF TryRef, TypeOK
  <2> QED
    BY <2>1, <2>2
<1>2. /\ go' \in [Goroutines -> GoState] /\ OnlyMoved(go, go', t)
      /\ go'[t].pc = "cloning" /\ go'[t].op = "warm" /\ go'[t].base = go[t].new /\ go'[t].new = None
      /\ go'[t].build = programs[go[t].new] /\ go'[t].fresh = {} /\ go'[t].disposing = None
      /\ panicked' = panicked
  <2> DEFINE q == [go[t] EXCEPT !.new = None]
  <2>1. q \in GoState /\ q.new = None /\ q.disposing = None
    BY <1>0 DEF GoState
  <2>2. StartClone(t, [go EXCEPT ![t] = q], "warm", go[t].new)
    BY <1>0, <2>1 DEF RunWarm
  <2>3. "warm" \in {"handle", "noref", "api", "prepare", "warm"}
    BY <1>0 DEF Shape, Updates
  <2> HIDE DEF q
  <2> QED
    BY <1>0, <1>1, <2>1, <2>2, <2>3, Starts
<1>3. refCount' = [refCount EXCEPT ![go[t].new] = @ + 1]
  BY DEF RunWarm
<1>4. Shape(go'[t]) /\ StartsBuild(t) /\ CachesKept
  BY <1>0, <1>2, <1>1, <1>3 DEF RunWarm, Shape, StartsBuild, CachesKept, snapVars, cacheVars
<1>5. Places'
  <2>1. TypeOK'
    BY <1>0, <1>2, <1>1, <1>3 DEF RunWarm, TypeOK, snapVars, cacheVars, lockVars
  <2>2. Locks'
    BY <1>0, <1>2, <1>1, <1>3 DEF RunWarm, OnlyMoved, Locks, Updating, IInv, Shape, Updates, lockVars
  <2>3. Closing'
    BY <1>0, <1>2 DEF RunWarm, OnlyMoved, Closing, IInv, Goroutines
  <2>4. Unfailed'
    BY <1>0, <1>2, <1>1, <1>3, ObjectsAssumption DEF RunWarm, OnlyMoved, Unfailed, IInv, Bases, Shape, Updates, snapVars, TypeOK
  <2> QED
    BY <2>1, <2>2, <2>3, <2>4 DEF Places
<1>6. ASSUME NEW s \in Snapshots
      PROVE  Weight(go'[t], s) = Weight(go[t], s) + (IF s = go[t].new THEN 1 ELSE 0)
  BY <1>0, <1>2, <1>1, <1>3, ObjectsAssumption DEF RunWarm, Weight, BaseWeight, NewWeight, Bases, Owns, Shape, Updates, WantsRef
<1> QED
  BY <1>0, <1>1, <1>2, <1>3, <1>4, <1>5, <1>6, TakeStep DEF RunWarm, CachesKept

LEMMA ReleaseRejectedStep ==
  ASSUME IInv, NEW h \in Handlers, ReleaseRejected(h)
  PROVE  IInv'
<1>0. /\ h \in Goroutines /\ h # Closer /\ TypeOK /\ Shape(go[h]) /\ go[h] \in GoState
      /\ go[h].pc = "rejected" /\ go[h].disposing = None
  BY Here DEF ReleaseRejected, Ready
<1>1. go[h].new \in Snapshots /\ refCount[go[h].new] \in Int /\ refCount[go[h].new] >= 1
  BY <1>0, Alive DEF IInv, Counts, Shape, Bases, Owns
<1>2. /\ go' \in [Goroutines -> GoState] /\ OnlyMoved(go, go', h)
      /\ go'[h].pc = "recover" /\ go'[h].op = go[h].op /\ go'[h].base = go[h].base /\ go'[h].new = None
      /\ go'[h].build = go[h].build /\ go'[h].fresh = go[h].fresh
      /\ Disposes(h, go[h].new) /\ panicked' = panicked
      /\ refCount' = [refCount EXCEPT ![go[h].new] = @ - 1] /\ refCount' \in [Snapshots -> Int]
  <2> DEFINE r == [go[h] EXCEPT !.pc = "recover", !.new = None]
  <2>1. Deref(h, go[h].new, [go EXCEPT ![h] = r])
    BY <1>0 DEF ReleaseRejected, TypeOK
  <2>2. /\ r \in GoState /\ r.pc = "recover" /\ r.op = go[h].op /\ r.base = go[h].base /\ r.new = None
        /\ r.build = go[h].build /\ r.fresh = go[h].fresh /\ r.disposing = None
    BY <1>0 DEF GoState, PCs
  <2> HIDE DEF r
  <2> QED
    BY <1>0, <1>1, <2>1, <2>2, DerefMoves
<1>3. Shape(go'[h]) /\ KeepsBuild(h) /\ CachesKept
  BY <1>0, <1>2 DEF ReleaseRejected, Shape, KeepsBuild, CachesKept, snapVars, cacheVars
<1>4. Places'
  <2>1. TypeOK'
    BY <1>0, <1>2 DEF ReleaseRejected, TypeOK, snapVars, cacheVars, lockVars
  <2>2. Locks'
    BY <1>0, <1>2 DEF ReleaseRejected, OnlyMoved, Locks, Updating, IInv, Shape, Updates, lockVars
  <2>3. Closing'
    BY <1>0, <1>2 DEF ReleaseRejected, OnlyMoved, Closing, IInv, Goroutines
  <2>4. Unfailed'
    BY <1>0, <1>1, <1>2, ObjectsAssumption DEF ReleaseRejected, OnlyMoved, Unfailed, IInv, Bases, Shape, Updates, snapVars, TypeOK
  <2> QED
    BY <2>1, <2>2, <2>3, <2>4 DEF Places
<1>5. ASSUME NEW s \in Snapshots
      PROVE  Weight(go'[h], s) + SessionHas(current', s) + (IF s = go[h].new THEN 1 ELSE 0)
               = Weight(go[h], s) + SessionHas(current, s)
  BY <1>0, <1>1, <1>2, ObjectsAssumption DEF ReleaseRejected, SessionHas, Weight, BaseWeight, NewWeight, Bases, Owns, Shape, Updates
<1> QED
  BY <1>0, <1>1, <1>2, <1>3, <1>4, <1>5, DropStep DEF ReleaseRejected

LEMMA ReleaseUnusedStep ==
  ASSUME IInv, NEW h \in Handlers, ReleaseUnused(h)
  PROVE  IInv'
<1>0. /\ h \in Goroutines /\ h # Closer /\ TypeOK /\ Shape(go[h]) /\ go[h] \in GoState
      /\ go[h].pc = "handoff" /\ go[h].disposing = None
  BY Here DEF ReleaseUnused, Ready
<1>1. go[h].new \in Snapshots /\ refCount[go[h].new] \in Int /\ refCount[go[h].new] >= 1
  BY <1>0, Alive DEF IInv, Counts, Shape, Bases, Owns
<1>2. /\ go' \in [Goroutines -> GoState] /\ OnlyMoved(go, go', h)
      /\ go'[h].pc = "release" /\ go'[h].op = go[h].op /\ go'[h].base = go[h].base /\ go'[h].new = None
      /\ go'[h].build = go[h].build /\ go'[h].fresh = go[h].fresh
      /\ Disposes(h, go[h].new) /\ panicked' = panicked
      /\ refCount' = [refCount EXCEPT ![go[h].new] = @ - 1] /\ refCount' \in [Snapshots -> Int]
  <2> DEFINE r == [go[h] EXCEPT !.pc = "release", !.new = None]
  <2>1. Deref(h, go[h].new, [go EXCEPT ![h] = r])
    BY <1>0 DEF ReleaseUnused, TypeOK
  <2>2. /\ r \in GoState /\ r.pc = "release" /\ r.op = go[h].op /\ r.base = go[h].base /\ r.new = None
        /\ r.build = go[h].build /\ r.fresh = go[h].fresh /\ r.disposing = None
    BY <1>0 DEF GoState, PCs
  <2> HIDE DEF r
  <2> QED
    BY <1>0, <1>1, <2>1, <2>2, DerefMoves
<1>3. Shape(go'[h]) /\ KeepsBuild(h) /\ CachesKept
  BY <1>0, <1>2 DEF ReleaseUnused, Shape, KeepsBuild, CachesKept, snapVars, cacheVars
<1>4. Places'
  <2>1. TypeOK'
    BY <1>0, <1>2 DEF ReleaseUnused, TypeOK, snapVars, cacheVars, lockVars
  <2>2. Locks'
    BY <1>0, <1>2 DEF ReleaseUnused, OnlyMoved, Locks, Updating, IInv, Shape, Updates, lockVars
  <2>3. Closing'
    BY <1>0, <1>2 DEF ReleaseUnused, OnlyMoved, Closing, IInv, Goroutines
  <2>4. Unfailed'
    BY <1>0, <1>1, <1>2, ObjectsAssumption DEF ReleaseUnused, OnlyMoved, Unfailed, IInv, Bases, Shape, Updates, snapVars, TypeOK
  <2> QED
    BY <2>1, <2>2, <2>3, <2>4 DEF Places
<1>5. ASSUME NEW s \in Snapshots
      PROVE  Weight(go'[h], s) + SessionHas(current', s) + (IF s = go[h].new THEN 1 ELSE 0)
               = Weight(go[h], s) + SessionHas(current, s)
  BY <1>0, <1>1, <1>2, ObjectsAssumption DEF ReleaseUnused, SessionHas, Weight, BaseWeight, NewWeight, Bases, Owns, Shape, Updates
<1> QED
  BY <1>0, <1>1, <1>2, <1>3, <1>4, <1>5, DropStep DEF ReleaseUnused

LEMMA ReleasePreparedStep ==
  ASSUME IInv, NEW h \in Handlers, ReleasePrepared(h)
  PROVE  IInv'
<1>0. /\ h \in Goroutines /\ h # Closer /\ TypeOK /\ Shape(go[h]) /\ go[h] \in GoState
      /\ go[h].pc = "prepared" /\ go[h].disposing = None
  BY Here DEF ReleasePrepared, Ready
<1>1. go[h].new \in Snapshots /\ refCount[go[h].new] \in Int /\ refCount[go[h].new] >= 1
  BY <1>0, Alive DEF IInv, Counts, Shape, Bases, Owns
<1>2. /\ go' \in [Goroutines -> GoState] /\ OnlyMoved(go, go', h)
      /\ go'[h].pc = "release" /\ go'[h].op = go[h].op /\ go'[h].base = go[h].base /\ go'[h].new = None
      /\ go'[h].build = go[h].build /\ go'[h].fresh = go[h].fresh
      /\ Disposes(h, go[h].new) /\ panicked' = panicked
      /\ refCount' = [refCount EXCEPT ![go[h].new] = @ - 1] /\ refCount' \in [Snapshots -> Int]
  <2> DEFINE r == [go[h] EXCEPT !.pc = "release", !.new = None]
  <2>1. Deref(h, go[h].new, [go EXCEPT ![h] = r])
    BY <1>0 DEF ReleasePrepared, TypeOK
  <2>2. /\ r \in GoState /\ r.pc = "release" /\ r.op = go[h].op /\ r.base = go[h].base /\ r.new = None
        /\ r.build = go[h].build /\ r.fresh = go[h].fresh /\ r.disposing = None
    BY <1>0 DEF GoState, PCs
  <2> HIDE DEF r
  <2> QED
    BY <1>0, <1>1, <2>1, <2>2, DerefMoves
<1>3. Shape(go'[h]) /\ KeepsBuild(h) /\ CachesKept
  BY <1>0, <1>2 DEF ReleasePrepared, Shape, KeepsBuild, CachesKept, snapVars, cacheVars
<1>4. Places'
  <2>1. TypeOK'
    BY <1>0, <1>2 DEF ReleasePrepared, TypeOK, snapVars, cacheVars, lockVars
  <2>2. Locks'
    BY <1>0, <1>2 DEF ReleasePrepared, OnlyMoved, Locks, Updating, IInv, Shape, Updates, lockVars
  <2>3. Closing'
    BY <1>0, <1>2 DEF ReleasePrepared, OnlyMoved, Closing, IInv, Goroutines
  <2>4. Unfailed'
    BY <1>0, <1>1, <1>2, ObjectsAssumption DEF ReleasePrepared, OnlyMoved, Unfailed, IInv, Bases, Shape, Updates, snapVars, TypeOK
  <2> QED
    BY <2>1, <2>2, <2>3, <2>4 DEF Places
<1>5. ASSUME NEW s \in Snapshots
      PROVE  Weight(go'[h], s) + SessionHas(current', s) + (IF s = go[h].new THEN 1 ELSE 0)
               = Weight(go[h], s) + SessionHas(current, s)
  BY <1>0, <1>1, <1>2, ObjectsAssumption DEF ReleasePrepared, SessionHas, Weight, BaseWeight, NewWeight, Bases, Owns, Shape, Updates
<1> QED
  BY <1>0, <1>1, <1>2, <1>3, <1>4, <1>5, DropStep DEF ReleasePrepared

LEMMA ReleaseSnapshotStep ==
  ASSUME IInv, NEW h \in Handlers, ReleaseSnapshot(h)
  PROVE  IInv'
<1>0. /\ h \in Goroutines /\ h # Closer /\ TypeOK /\ Shape(go[h]) /\ go[h] \in GoState
      /\ go[h].pc \in {"using", "release"} /\ go[h].disposing = None
  BY Here DEF ReleaseSnapshot, Ready
<1>1. go[h].base \in Snapshots /\ refCount[go[h].base] \in Int /\ refCount[go[h].base] >= 1
  BY <1>0, Alive DEF IInv, Counts, Shape, Bases, Owns
<1>2. /\ go' \in [Goroutines -> GoState] /\ OnlyMoved(go, go', h)
      /\ go'[h].pc = "idle" /\ go'[h].op = "none" /\ go'[h].base = None /\ go'[h].new = None
      /\ go'[h].build = NoPrograms /\ go'[h].fresh = {}
      /\ Disposes(h, go[h].base) /\ panicked' = panicked
      /\ refCount' = [refCount EXCEPT ![go[h].base] = @ - 1] /\ refCount' \in [Snapshots -> Int]
  <2>1. Deref(h, go[h].base, [go EXCEPT ![h] = Idle])
    BY <1>0 DEF ReleaseSnapshot
  <2> QED
    BY <1>0, <1>1, <2>1, IdleFields, DerefMoves
<1>3. Shape(go'[h]) /\ KeepsBuild(h) /\ CachesKept
  BY <1>0, <1>2 DEF ReleaseSnapshot, Shape, KeepsBuild, CachesKept, snapVars, cacheVars, NoPrograms
<1>4. Places'
  <2>1. TypeOK'
    BY <1>0, <1>2 DEF ReleaseSnapshot, TypeOK, snapVars, cacheVars, lockVars
  <2>2. Locks'
    BY <1>0, <1>2 DEF ReleaseSnapshot, OnlyMoved, Locks, Updating, IInv, Shape, Updates, lockVars
  <2>3. Closing'
    BY <1>0, <1>2 DEF ReleaseSnapshot, OnlyMoved, Closing, IInv, Goroutines
  <2>4. Unfailed'
    BY <1>0, <1>1, <1>2, ObjectsAssumption DEF ReleaseSnapshot, OnlyMoved, Unfailed, IInv, Bases, Shape, Updates, snapVars, TypeOK
  <2> QED
    BY <2>1, <2>2, <2>3, <2>4 DEF Places
<1>5. ASSUME NEW s \in Snapshots
      PROVE  Weight(go'[h], s) + SessionHas(current', s) + (IF s = go[h].base THEN 1 ELSE 0)
               = Weight(go[h], s) + SessionHas(current, s)
  BY <1>0, <1>1, <1>2, ObjectsAssumption DEF ReleaseSnapshot, SessionHas, Weight, BaseWeight, NewWeight, Bases, Owns, Shape, Updates
<1> QED
  BY <1>0, <1>1, <1>2, <1>3, <1>4, <1>5, DropStep DEF ReleaseSnapshot

LEMMA WarmedDropsStep ==
  ASSUME IInv, NEW t \in Tasks, Warmed(t), Deref(t, go[t].new, [go EXCEPT ![t].pc = "warmEnd", ![t].new = None])
  PROVE  IInv'
<1>0. /\ t \in Goroutines /\ t # Closer /\ TypeOK /\ Shape(go[t]) /\ go[t] \in GoState
      /\ go[t].pc = "warmed" /\ go[t].disposing = None
  BY Here DEF Warmed, Ready
<1>1. go[t].new \in Snapshots /\ refCount[go[t].new] \in Int /\ refCount[go[t].new] >= 1
  BY <1>0, Alive DEF IInv, Counts, Shape, Bases, Owns
<1>2. /\ go' \in [Goroutines -> GoState] /\ OnlyMoved(go, go', t)
      /\ go'[t].pc = "warmEnd" /\ go'[t].op = go[t].op /\ go'[t].base = go[t].base /\ go'[t].new = None
      /\ go'[t].build = go[t].build /\ go'[t].fresh = go[t].fresh
      /\ Disposes(t, go[t].new) /\ panicked' = panicked
      /\ refCount' = [refCount EXCEPT ![go[t].new] = @ - 1] /\ refCount' \in [Snapshots -> Int]
  <2> DEFINE r == [go[t] EXCEPT !.pc = "warmEnd", !.new = None]
  <2>1. Deref(t, go[t].new, [go EXCEPT ![t] = r])
    BY <1>0 DEF Warmed, TypeOK
  <2>2. /\ r \in GoState /\ r.pc = "warmEnd" /\ r.op = go[t].op /\ r.base = go[t].base /\ r.new = None
        /\ r.build = go[t].build /\ r.fresh = go[t].fresh /\ r.disposing = None
    BY <1>0 DEF GoState, PCs
  <2> HIDE DEF r
  <2> QED
    BY <1>0, <1>1, <2>1, <2>2, DerefMoves
<1>3. Shape(go'[t]) /\ KeepsBuild(t) /\ CachesKept
  BY <1>0, <1>2 DEF Warmed, Shape, KeepsBuild, CachesKept, snapVars, cacheVars
<1>4. Places'
  <2>1. TypeOK'
    BY <1>0, <1>2 DEF Warmed, TypeOK, snapVars, cacheVars, lockVars
  <2>2. Locks'
    BY <1>0, <1>2 DEF Warmed, OnlyMoved, Locks, Updating, IInv, Shape, Updates, lockVars
  <2>3. Closing'
    BY <1>0, <1>2 DEF Warmed, OnlyMoved, Closing, IInv, Goroutines
  <2>4. Unfailed'
    BY <1>0, <1>1, <1>2, ObjectsAssumption DEF Warmed, OnlyMoved, Unfailed, IInv, Bases, Shape, Updates, snapVars, TypeOK
  <2> QED
    BY <2>1, <2>2, <2>3, <2>4 DEF Places
<1>5. ASSUME NEW s \in Snapshots
      PROVE  Weight(go'[t], s) + SessionHas(current', s) + (IF s = go[t].new THEN 1 ELSE 0)
               = Weight(go[t], s) + SessionHas(current, s)
  BY <1>0, <1>1, <1>2, ObjectsAssumption DEF Warmed, SessionHas, Weight, BaseWeight, NewWeight, Bases, Owns, Shape, Updates
<1> QED
  BY <1>0, <1>1, <1>2, <1>3, <1>4, <1>5, DropStep DEF Warmed

LEMMA LostAdoptionStep ==
  ASSUME IInv, NEW t \in Tasks, LostAdoption(t), go[t].op = "adopt"
  PROVE  IInv'
<1>0. /\ t \in Goroutines /\ t # Closer /\ TypeOK /\ Shape(go[t]) /\ go[t] \in GoState
      /\ go[t].pc = "lost" /\ go[t].disposing = None
  BY Here DEF LostAdoption, Ready
<1>1. go[t].new \in Snapshots /\ refCount[go[t].new] \in Int /\ refCount[go[t].new] >= 1
  BY <1>0, Alive DEF IInv, Counts, Shape, Bases, Owns
<1>2. /\ go' \in [Goroutines -> GoState] /\ OnlyMoved(go, go', t)
      /\ go'[t].pc = "idle" /\ go'[t].op = "none" /\ go'[t].base = None /\ go'[t].new = None
      /\ go'[t].build = NoPrograms /\ go'[t].fresh = {}
      /\ Disposes(t, go[t].new) /\ panicked' = panicked
      /\ refCount' = [refCount EXCEPT ![go[t].new] = @ - 1] /\ refCount' \in [Snapshots -> Int]
  <2>1. Deref(t, go[t].new, [go EXCEPT ![t] = Idle])
    BY <1>0 DEF LostAdoption, AfterAdopt
  <2> QED
    BY <1>0, <1>1, <2>1, IdleFields, DerefMoves
<1>3. Shape(go'[t]) /\ KeepsBuild(t) /\ CachesKept
  BY <1>0, <1>2 DEF LostAdoption, Shape, KeepsBuild, CachesKept, snapVars, cacheVars, NoPrograms
<1>4. Places'
  <2>1. TypeOK'
    BY <1>0, <1>2 DEF LostAdoption, TypeOK, snapVars, cacheVars, lockVars
  <2>2. Locks'
    BY <1>0, <1>2 DEF LostAdoption, OnlyMoved, Locks, Updating, IInv, Shape, Updates, lockVars
  <2>3. Closing'
    BY <1>0, <1>2 DEF LostAdoption, OnlyMoved, Closing, IInv, Goroutines
  <2>4. Unfailed'
    BY <1>0, <1>1, <1>2, ObjectsAssumption DEF LostAdoption, OnlyMoved, Unfailed, IInv, Bases, Shape, Updates, snapVars, TypeOK
  <2> QED
    BY <2>1, <2>2, <2>3, <2>4 DEF Places
<1>5. ASSUME NEW s \in Snapshots
      PROVE  Weight(go'[t], s) + SessionHas(current', s) + (IF s = go[t].new THEN 1 ELSE 0)
               = Weight(go[t], s) + SessionHas(current, s)
  BY <1>0, <1>1, <1>2, ObjectsAssumption DEF LostAdoption, SessionHas, Weight, BaseWeight, NewWeight, Bases, Owns, Shape, Updates
<1> QED
  BY <1>0, <1>1, <1>2, <1>3, <1>4, <1>5, DropStep DEF LostAdoption

LEMMA LostWarmStep ==
  ASSUME IInv, NEW t \in Tasks, LostAdoption(t), go[t].op = "warm"
  PROVE  IInv'
<1>0. /\ t \in Goroutines /\ t # Closer /\ TypeOK /\ Shape(go[t]) /\ go[t] \in GoState
      /\ go[t].pc = "lost" /\ go[t].disposing = None
  BY Here DEF LostAdoption, Ready
<1>1. go[t].new \in Snapshots /\ refCount[go[t].new] \in Int /\ refCount[go[t].new] >= 1
  BY <1>0, Alive DEF IInv, Counts, Shape, Bases, Owns
<1>2. /\ go' \in [Goroutines -> GoState] /\ OnlyMoved(go, go', t)
      /\ go'[t].pc = "warmEnd" /\ go'[t].op = go[t].op /\ go'[t].base = go[t].base /\ go'[t].new = None
      /\ go'[t].build = go[t].build /\ go'[t].fresh = go[t].fresh
      /\ Disposes(t, go[t].new) /\ panicked' = panicked
      /\ refCount' = [refCount EXCEPT ![go[t].new] = @ - 1] /\ refCount' \in [Snapshots -> Int]
  <2> DEFINE r == [go[t] EXCEPT !.pc = "warmEnd", !.new = None]
  <2>1. Deref(t, go[t].new, [go EXCEPT ![t] = r])
    BY <1>0 DEF LostAdoption, TypeOK, AfterAdopt
  <2>2. /\ r \in GoState /\ r.pc = "warmEnd" /\ r.op = go[t].op /\ r.base = go[t].base /\ r.new = None
        /\ r.build = go[t].build /\ r.fresh = go[t].fresh /\ r.disposing = None
    BY <1>0 DEF GoState, PCs
  <2> HIDE DEF r
  <2> QED
    BY <1>0, <1>1, <2>1, <2>2, DerefMoves
<1>3. Shape(go'[t]) /\ KeepsBuild(t) /\ CachesKept
  BY <1>0, <1>2 DEF LostAdoption, Shape, KeepsBuild, CachesKept, snapVars, cacheVars
<1>4. Places'
  <2>1. TypeOK'
    BY <1>0, <1>2 DEF LostAdoption, TypeOK, snapVars, cacheVars, lockVars
  <2>2. Locks'
    BY <1>0, <1>2 DEF LostAdoption, OnlyMoved, Locks, Updating, IInv, Shape, Updates, lockVars
  <2>3. Closing'
    BY <1>0, <1>2 DEF LostAdoption, OnlyMoved, Closing, IInv, Goroutines
  <2>4. Unfailed'
    BY <1>0, <1>1, <1>2, ObjectsAssumption DEF LostAdoption, OnlyMoved, Unfailed, IInv, Bases, Shape, Updates, snapVars, TypeOK
  <2> QED
    BY <2>1, <2>2, <2>3, <2>4 DEF Places
<1>5. ASSUME NEW s \in Snapshots
      PROVE  Weight(go'[t], s) + SessionHas(current', s) + (IF s = go[t].new THEN 1 ELSE 0)
               = Weight(go[t], s) + SessionHas(current, s)
  BY <1>0, <1>1, <1>2, ObjectsAssumption DEF LostAdoption, SessionHas, Weight, BaseWeight, NewWeight, Bases, Owns, Shape, Updates
<1> QED
  BY <1>0, <1>1, <1>2, <1>3, <1>4, <1>5, DropStep DEF LostAdoption

LEMMA WarmEndStep ==
  ASSUME IInv, NEW t \in Tasks, WarmEnd(t)
  PROVE  IInv'
<1>0. /\ t \in Goroutines /\ t # Closer /\ TypeOK /\ Shape(go[t]) /\ go[t] \in GoState
      /\ go[t].pc = "warmEnd" /\ go[t].disposing = None
  BY Here DEF WarmEnd, Ready
<1>1. go[t].base \in Snapshots /\ refCount[go[t].base] \in Int /\ refCount[go[t].base] >= 1
  BY <1>0, Alive DEF IInv, Counts, Shape, Bases, Owns
<1>2. /\ go' \in [Goroutines -> GoState] /\ OnlyMoved(go, go', t)
      /\ go'[t].pc = "idle" /\ go'[t].op = "none" /\ go'[t].base = None /\ go'[t].new = None
      /\ go'[t].build = NoPrograms /\ go'[t].fresh = {}
      /\ Disposes(t, go[t].base) /\ panicked' = panicked
      /\ refCount' = [refCount EXCEPT ![go[t].base] = @ - 1] /\ refCount' \in [Snapshots -> Int]
  <2>1. Deref(t, go[t].base, [go EXCEPT ![t] = Idle])
    BY <1>0 DEF WarmEnd
  <2> QED
    BY <1>0, <1>1, <2>1, IdleFields, DerefMoves
<1>3. Shape(go'[t]) /\ KeepsBuild(t) /\ CachesKept
  BY <1>0, <1>2 DEF WarmEnd, Shape, KeepsBuild, CachesKept, snapVars, cacheVars, NoPrograms
<1>4. Places'
  <2>1. TypeOK'
    BY <1>0, <1>2 DEF WarmEnd, TypeOK, snapVars, cacheVars, lockVars
  <2>2. Locks'
    BY <1>0, <1>2 DEF WarmEnd, OnlyMoved, Locks, Updating, IInv, Shape, Updates, lockVars
  <2>3. Closing'
    BY <1>0, <1>2 DEF WarmEnd, OnlyMoved, Closing, IInv, Goroutines
  <2>4. Unfailed'
    BY <1>0, <1>1, <1>2, ObjectsAssumption DEF WarmEnd, OnlyMoved, Unfailed, IInv, Bases, Shape, Updates, snapVars, TypeOK
  <2> QED
    BY <2>1, <2>2, <2>3, <2>4 DEF Places
<1>5. ASSUME NEW s \in Snapshots
      PROVE  Weight(go'[t], s) + SessionHas(current', s) + (IF s = go[t].base THEN 1 ELSE 0)
               = Weight(go[t], s) + SessionHas(current, s)
  BY <1>0, <1>1, <1>2, ObjectsAssumption DEF WarmEnd, SessionHas, Weight, BaseWeight, NewWeight, Bases, Owns, Shape, Updates
<1> QED
  BY <1>0, <1>1, <1>2, <1>3, <1>4, <1>5, DropStep DEF WarmEnd

LEMMA EndPublishStep ==
  ASSUME IInv, NEW t \in Tasks, EndPublish(t)
  PROVE  IInv'
<1>0. /\ t \in Goroutines /\ t # Closer /\ TypeOK /\ Shape(go[t]) /\ go[t] \in GoState
      /\ go[t].pc = "publish" /\ go[t].disposing = None
  BY Here DEF EndPublish, Ready
<1>1. go[t].base \in Snapshots /\ refCount[go[t].base] \in Int /\ refCount[go[t].base] >= 1
  BY <1>0, Alive DEF IInv, Counts, Shape, Bases, Owns
<1>2. /\ go' \in [Goroutines -> GoState] /\ OnlyMoved(go, go', t)
      /\ go'[t].pc = "idle" /\ go'[t].op = "none" /\ go'[t].base = None /\ go'[t].new = None
      /\ go'[t].build = NoPrograms /\ go'[t].fresh = {}
      /\ Disposes(t, go[t].base) /\ panicked' = panicked
      /\ refCount' = [refCount EXCEPT ![go[t].base] = @ - 1] /\ refCount' \in [Snapshots -> Int]
  <2>1. Deref(t, go[t].base, [go EXCEPT ![t] = Idle])
    BY <1>0 DEF EndPublish
  <2> QED
    BY <1>0, <1>1, <2>1, IdleFields, DerefMoves
<1>3. Shape(go'[t]) /\ KeepsBuild(t) /\ CachesKept
  BY <1>0, <1>2 DEF EndPublish, Shape, KeepsBuild, CachesKept, snapVars, cacheVars, NoPrograms
<1>4. Places'
  <2>1. TypeOK'
    BY <1>0, <1>2 DEF EndPublish, TypeOK, snapVars, cacheVars, lockVars
  <2>2. Locks'
    BY <1>0, <1>2 DEF EndPublish, OnlyMoved, Locks, Updating, IInv, Shape, Updates, lockVars
  <2>3. Closing'
    BY <1>0, <1>2 DEF EndPublish, OnlyMoved, Closing, IInv, Goroutines
  <2>4. Unfailed'
    BY <1>0, <1>1, <1>2, ObjectsAssumption DEF EndPublish, OnlyMoved, Unfailed, IInv, Bases, Shape, Updates, snapVars, TypeOK
  <2> QED
    BY <2>1, <2>2, <2>3, <2>4 DEF Places
<1>5. ASSUME NEW s \in Snapshots
      PROVE  Weight(go'[t], s) + SessionHas(current', s) + (IF s = go[t].base THEN 1 ELSE 0)
               = Weight(go[t], s) + SessionHas(current, s)
  BY <1>0, <1>1, <1>2, ObjectsAssumption DEF EndPublish, SessionHas, Weight, BaseWeight, NewWeight, Bases, Owns, Shape, Updates
<1> QED
  BY <1>0, <1>1, <1>2, <1>3, <1>4, <1>5, DropStep DEF EndPublish

LEMMA AdoptStep ==
  ASSUME IInv, NEW t \in Tasks, Adopt(t), ~MovedOn(t)
  PROVE  IInv'
<1>0. /\ t \in Goroutines /\ t # Closer /\ TypeOK /\ Shape(go[t]) /\ go[t] \in GoState
      /\ go[t].pc = "adopt" /\ go[t].disposing = None
      /\ go[t].new \in Snapshots /\ snapshotMu = None
  BY Here DEF Adopt, Ready, Shape
<1>1. current \in Snapshots /\ refCount[current] \in Int /\ refCount[current] >= 1
  <2>1. closing # "closed"
    BY <1>0 DEF IInv, Closing
  <2>2. current \in Snapshots
    BY <1>0, <2>1 DEF IInv, Closing, TypeOK
  <2> QED
    BY <1>0, <2>2, Alive DEF IInv, Counts
<1>2. /\ go' \in [Goroutines -> GoState] /\ OnlyMoved(go, go', t)
      /\ go'[t].pc = "adopted" /\ go'[t].op = go[t].op /\ go'[t].base = go[t].base /\ go'[t].new = go[t].new
      /\ go'[t].build = go[t].build /\ go'[t].fresh = go[t].fresh
      /\ Disposes(t, current) /\ panicked' = panicked
      /\ refCount' = [refCount EXCEPT ![current] = @ - 1] /\ refCount' \in [Snapshots -> Int]
  <2> DEFINE r == [go[t] EXCEPT !.pc = "adopted"]
  <2>1. Deref(t, current, [go EXCEPT ![t] = r])
    BY <1>0 DEF Adopt, TypeOK
  <2>2. /\ r \in GoState /\ r.pc = "adopted" /\ r.op = go[t].op /\ r.base = go[t].base /\ r.new = go[t].new
        /\ r.build = go[t].build /\ r.fresh = go[t].fresh /\ r.disposing = None
    BY <1>0 DEF GoState, PCs
  <2> HIDE DEF r
  <2> QED
    BY <1>0, <1>1, <2>1, <2>2, DerefMoves
<1>3. Shape(go'[t]) /\ KeepsBuild(t) /\ CachesKept
  BY <1>0, <1>2 DEF Adopt, Shape, KeepsBuild, CachesKept, snapVars, cacheVars
<1>4. Places'
  <2>1. TypeOK'
    BY <1>0, <1>2 DEF Adopt, TypeOK, snapVars, cacheVars, lockVars
  <2>2. Locks'
    BY <1>0, <1>2, Finite DEF Adopt, OnlyMoved, Locks, Updating, IInv, Shape, Updates, lockVars
  <2>3. Closing'
    BY <1>0, <1>2, ObjectsAssumption DEF Adopt, OnlyMoved, Closing, IInv, Goroutines
  <2>4. Unfailed'
    BY <1>0, <1>1, <1>2, ObjectsAssumption DEF Adopt, OnlyMoved, Unfailed, IInv, Bases, Shape, Updates, snapVars, TypeOK
  <2> QED
    BY <2>1, <2>2, <2>3, <2>4 DEF Places
<1>5. ASSUME NEW s \in Snapshots
      PROVE  Weight(go'[t], s) + SessionHas(current', s) + (IF s = current THEN 1 ELSE 0)
               = Weight(go[t], s) + SessionHas(current, s)
  BY <1>0, <1>1, <1>2, ObjectsAssumption DEF Adopt, SessionHas, Weight, BaseWeight, NewWeight, Bases, Owns, Shape, Updates
<1> QED
  BY <1>0, <1>1, <1>2, <1>3, <1>4, <1>5, DropStep DEF Adopt

-----------------------------------------------------------------------------
(* Steps that start tasks, install a clone, or close.                           *)

LEMMA Returning ==
  ASSUME TypeOK, NEW h \in Goroutines, Shape(go[h]), go[h].pc = "enqueue"
  PROVE  /\ Returned(h) \in GoState /\ Shape(Returned(h))
         /\ Returned(h).pc \in {"idle", "using"} /\ Returned(h).disposing = None
         /\ Returned(h).op \in {"none", "handle", "api"}
         /\ Returned(h).base \in {None, go[h].new}
         /\ Returned(h).build = go[h].build /\ Returned(h).fresh = go[h].fresh
         /\ \A s \in Snapshots : Weight(Returned(h), s) = Weight(go[h], s)
<1> DEFINE r == [Idle EXCEPT !.pc = "using", !.op = go[h].op, !.base = go[h].new]
<1>1. /\ go[h] \in GoState /\ go[h].op \in Updates /\ go[h].new \in Snapshots
      /\ go[h].build = NoPrograms /\ go[h].fresh = {}
  BY DEF TypeOK, Shape
<1>2. CASE go[h].op = "noref"
  <2>1. Returned(h) = Idle
    BY <1>2 DEF Returned
  <2>2. \A s \in Snapshots : Weight(Idle, s) = 0 /\ Weight(go[h], s) = 0
    BY <1>1, <1>2, IdleFields, ObjectsAssumption
       DEF Weight, BaseWeight, NewWeight, Bases, Owns, WantsRef
  <2> QED
    BY <1>1, <2>1, <2>2, IdleFields DEF Shape
<1>3. CASE go[h].op \in {"handle", "api"}
  <2>1. Returned(h) = r
    BY <1>3 DEF Returned
  <2>2. /\ r \in GoState /\ r.pc = "using" /\ r.op = go[h].op /\ r.base = go[h].new /\ r.new = None
        /\ r.build = NoPrograms /\ r.fresh = {} /\ r.disposing = None
    BY <1>1, IdleFields DEF GoState, PCs
  <2> HIDE DEF r
  <2>3. \A s \in Snapshots : Weight(r, s) = Weight(go[h], s)
    BY <1>1, <1>3, <2>2, ObjectsAssumption
       DEF Weight, BaseWeight, NewWeight, Bases, Owns, WantsRef
  <2>4. Shape(r)
    BY <1>1, <1>3, <2>2 DEF Shape
  <2> QED
    BY <1>1, <1>3, <2>1, <2>2, <2>3, <2>4
<1> QED
  BY <1>1, <1>2, <1>3 DEF Updates

LEMMA EnqueueNothingStep ==
  ASSUME IInv, NEW h \in Handlers, EnqueueUpdateTask(h), go' = [go EXCEPT ![h] = Returned(h)]
  PROVE  IInv'
<1>0. /\ h \in Goroutines /\ h # Closer /\ TypeOK /\ Shape(go[h]) /\ go[h] \in GoState
      /\ go[h].pc = "enqueue" /\ go[h].disposing = None
  BY Here DEF EnqueueUpdateTask, Ready
<1> DEFINE r == Returned(h)
<1>1. /\ r \in GoState /\ Shape(r) /\ r.pc \in {"idle", "using"} /\ r.disposing = None
      /\ r.op \in {"none", "handle", "api"}
      /\ r.base \in {None, go[h].new} /\ r.build = go[h].build /\ r.fresh = go[h].fresh
      /\ \A s \in Snapshots : Weight(r, s) = Weight(go[h], s)
  BY <1>0, Returning
<1> HIDE DEF r
<1>2. go' \in [Goroutines -> GoState] /\ OnlyMoved(go, go', h) /\ go'[h] = r
  BY <1>0, <1>1, Moves DEF r
<1>3. KeepsBuild(h) /\ CachesKept
  BY <1>0, <1>1, <1>2 DEF EnqueueUpdateTask, KeepsBuild, CachesKept, snapVars, cacheVars, Shape
<1>4. Places'
  <2>1. TypeOK'
    BY <1>0, <1>2 DEF EnqueueUpdateTask, TypeOK, snapVars, cacheVars
  <2>2. Locks'
    BY <1>0, <1>1, <1>2 DEF EnqueueUpdateTask, OnlyMoved, Locks, Updating, IInv
  <2>3. Closing'
    BY <1>0, <1>1, <1>2 DEF EnqueueUpdateTask, OnlyMoved, Closing, IInv, Goroutines
  <2>4. Unfailed'
    <3>1. None \notin apiError
      BY <1>0, ObjectsAssumption DEF TypeOK
    <3> QED
      BY <1>0, <1>1, <1>2, <3>1 DEF EnqueueUpdateTask, OnlyMoved, Unfailed, IInv, snapVars
  <2> QED
    BY <2>1, <2>2, <2>3, <2>4 DEF Places
<1> QED
  BY <1>0, <1>1, <1>2, <1>3, <1>4, StillStep DEF EnqueueUpdateTask

LEMMA TwoDisposals ==
  ASSUME IInv, CachesKept, NEW h \in Goroutines, NEW t \in Goroutines, TwoMove(h, t),
         go[h].disposing = None, go'[h].disposing = None,
         go[t].disposing = None, go'[t].disposing = None,
         refCount' \in [Snapshots -> Int], \A s \in Snapshots : refCount'[s] > 0 <=> refCount[s] > 0
  PROVE  Disposals' /\ HoldsSame
<1>1. \A k \in Goroutines : SameDisposal(k)
  BY DEF SameDisposal, TwoMove
<1> QED
  BY <1>1, RefsStay DEF IInv, CachesKept

LEMMA EnqueueTaskStep ==
  ASSUME IInv, NEW h \in Handlers, NEW t \in Tasks, EnqueueUpdateTask(h),
         closing = "open", Ready(t, "idle"),
         go' = [go EXCEPT ![h] = Returned(h),
                          ![t].pc = "start", ![t].op = "warm", ![t].new = go[h].new]
  PROVE  IInv'
<1>0. /\ h \in Goroutines /\ h # Closer /\ TypeOK /\ Shape(go[h]) /\ go[h] \in GoState
      /\ go[h].pc = "enqueue" /\ go[h].disposing = None /\ go[h].new \in Snapshots
      /\ t \in Goroutines /\ t # Closer /\ h # t /\ Shape(go[t]) /\ go[t] \in GoState
      /\ go[t].pc = "idle" /\ go[t].op = "none" /\ go[t].base = None /\ go[t].disposing = None
  BY Here, GoroutinesAssumption DEF EnqueueUpdateTask, Ready, Shape
<1> DEFINE r == Returned(h)
           q == [go[t] EXCEPT !.pc = "start", !.op = "warm", !.new = go[h].new]
<1>1. /\ r \in GoState /\ Shape(r) /\ r.pc \in {"idle", "using"} /\ r.disposing = None
      /\ r.op \in {"none", "handle", "api"}
      /\ r.base \in {None, go[h].new} /\ r.build = go[h].build /\ r.fresh = go[h].fresh
      /\ \A s \in Snapshots : Weight(r, s) = Weight(go[h], s)
  BY <1>0, Returning
<1>2. /\ q \in GoState /\ q.pc = "start" /\ q.op = "warm" /\ q.new = go[h].new /\ q.base = None
      /\ q.build = go[t].build /\ q.fresh = go[t].fresh /\ q.disposing = None
  BY <1>0 DEF GoState, PCs
<1>3. go' = [[go EXCEPT ![h] = r] EXCEPT ![t] = q]
  BY <1>0 DEF TypeOK
<1> HIDE DEF r, q
<1>4. /\ go' \in [Goroutines -> GoState] /\ go'[h] = r /\ go'[t] = q
      /\ TwoMove(h, t)
  <2>1. go \in [Goroutines -> GoState]
    BY <1>0 DEF TypeOK
  <2>2. go' \in [Goroutines -> GoState]
    BY <1>0, <1>1, <1>2, <1>3, <2>1
  <2>3. go'[h] = r
    BY <1>0, <1>1, <1>2, <1>3, <2>1
  <2>4. go'[t] = q
    BY <1>0, <1>1, <1>2, <1>3, <2>1
  <2> QED
    BY <1>0, <1>3, <2>1, <2>2, <2>3, <2>4 DEF TwoMove
<1>a. /\ UNCHANGED <<current, refCount, snapVars, cacheVars, snapshotMu, closing, panicked>>
      /\ updateMu' = IF updateMu = h THEN None ELSE updateMu
  BY DEF EnqueueUpdateTask
<1>5. KeepsBuild(h) /\ KeepsBuild(t) /\ CachesKept /\ Shape(go'[h]) /\ Shape(go'[t])
  BY <1>0, <1>1, <1>2, <1>4, <1>a DEF KeepsBuild, CachesKept, snapVars, cacheVars, Shape
<1>6. Places'
  <2>1. TypeOK'
    BY <1>0, <1>4, <1>a DEF TypeOK, snapVars, cacheVars
  <2>2. Locks'
    BY <1>0, <1>1, <1>2, <1>4, <1>a DEF TwoMove, Locks, Updating, IInv
  <2>3. Closing'
    BY <1>0, <1>1, <1>2, <1>4, <1>a, Finite DEF TwoMove, Closing, IInv
  <2>4. Unfailed'
    <3>1. None \notin apiError /\ go[h].new \notin apiError
      BY <1>0, ObjectsAssumption DEF TypeOK, IInv, Unfailed
    <3> QED
      BY <1>0, <1>1, <1>2, <1>4, <1>a, <3>1 DEF TwoMove, Unfailed, IInv, snapVars, Bases
  <2> QED
    BY <2>1, <2>2, <2>3, <2>4 DEF Places
<1>7. Disposals' /\ HoldsSame
  BY <1>0, <1>1, <1>2, <1>4, <1>5, <1>a, TwoDisposals DEF TypeOK
<1>8. ASSUME NEW s \in Snapshots
      PROVE  Balanced(s, Weight(go'[h], s) - Weight(go[h], s) + Weight(go'[t], s) - Weight(go[t], s))
  <2>1. Weight(go'[h], s) = Weight(go[h], s)
    BY <1>1, <1>4
  <2>2. Weight(go'[t], s) = Weight(go[t], s)
    BY <1>0, <1>2, <1>4, ObjectsAssumption DEF Weight, BaseWeight, NewWeight, Bases, Owns
  <2>3. Weight(go[h], s) \in Nat /\ Weight(go[t], s) \in Nat
    BY WeightType
  <2>4. refCount[s] \in Int
    BY <1>0 DEF TypeOK
  <2> QED
    BY <1>a, <2>1, <2>2, <2>3, <2>4 DEF Balanced, SessionHas
<1> QED
  BY <1>0, <1>4, <1>5, <1>6, <1>7, <1>8, TwoSteps

\* h becomes r, and the task t is given the clone new of base.
HandsTo(h, r, t, base, new) ==
  go' = [[go EXCEPT ![h] = r] EXCEPT
           ![t] = [go[t] EXCEPT !.pc = "start", !.op = "adopt", !.base = base, !.new = new]]

LEMMA HandOffIs ==
  ASSUME TypeOK, NEW h \in Handlers, NEW r \in GoState, NEW base, NEW new,
         HandOff([go EXCEPT ![h] = r], base, new)
  PROVE  \/ closing # "open" /\ go' = [go EXCEPT ![h] = r]
         \/ closing = "open" /\ \E t \in Tasks : Ready(t, "idle") /\ HandsTo(h, r, t, base, new)
<1>1. CASE closing # "open"
  BY <1>1 DEF HandOff
<1>2. CASE closing = "open"
  <2>1. PICK t \in Tasks :
           /\ Ready(t, "idle")
           /\ go' = [[go EXCEPT ![h] = r] EXCEPT ![t].pc = "start", ![t].op = "adopt",
                                                 ![t].base = base, ![t].new = new]
    BY <1>2 DEF HandOff
  <2>2. h # t /\ h \in Goroutines /\ t \in Goroutines /\ go \in [Goroutines -> GoState]
    BY GoroutinesAssumption DEF Goroutines, TypeOK
  <2>3. [go EXCEPT ![h] = r][t] = go[t]
    BY <2>2
  <2>4. HandsTo(h, r, t, base, new)
    BY <2>1, <2>2, <2>3 DEF HandsTo
  <2> QED
    BY <1>2, <2>1, <2>4
<1> QED
  BY <1>1, <1>2

LEMMA HandsOff ==
  ASSUME TypeOK, NEW h \in Goroutines, NEW t \in Goroutines, h # t, NEW r \in GoState,
         Shape(go[t]), go[t].pc = "idle", go[t].disposing = None,
         NEW base \in Snapshots, NEW new \in Snapshots, HandsTo(h, r, t, base, new)
  PROVE  /\ go' \in [Goroutines -> GoState] /\ go'[h] = r /\ TwoMove(h, t)
         /\ go'[t].pc = "start" /\ go'[t].op = "adopt" /\ go'[t].base = base /\ go'[t].new = new
         /\ go'[t].disposing = None /\ KeepsBuild(t) /\ Shape(go'[t])
         /\ \A s \in Snapshots : Weight(go'[t], s) = Weight(go[t], s) + (IF s = new THEN 1 ELSE 0)
<1> DEFINE q == [go[t] EXCEPT !.pc = "start", !.op = "adopt", !.base = base, !.new = new]
<1>1. /\ go \in [Goroutines -> GoState] /\ go[t].op = "none" /\ go[t].base = None /\ go[t].new = None
      /\ go[t].build = NoPrograms /\ go[t].fresh = {}
  BY DEF TypeOK, Shape
<1>2. /\ q \in GoState /\ q.pc = "start" /\ q.op = "adopt" /\ q.base = base /\ q.new = new
      /\ q.build = NoPrograms /\ q.fresh = {} /\ q.disposing = None
  BY <1>1 DEF GoState, PCs
<1>3. go' = [[go EXCEPT ![h] = r] EXCEPT ![t] = q]
  BY DEF HandsTo
<1> HIDE DEF q
<1>4. go'[h] = r /\ go'[t] = q
  BY <1>1, <1>3
<1>5. go' \in [Goroutines -> GoState] /\ TwoMove(h, t)
  <2>1. go' \in [Goroutines -> GoState]
    BY <1>1, <1>2, <1>3
  <2>2. TwoMove(h, t)
    BY <1>1, <1>3 DEF TwoMove
  <2> QED
    BY <2>1, <2>2
<1>6. KeepsBuild(t) /\ Shape(go'[t])
  BY <1>1, <1>2, <1>4 DEF KeepsBuild, Shape
<1>7. \A s \in Snapshots : Weight(go'[t], s) = Weight(go[t], s) + (IF s = new THEN 1 ELSE 0)
  BY <1>1, <1>2, <1>4, ObjectsAssumption DEF Weight, BaseWeight, NewWeight, Bases, Owns
<1> QED
  BY <1>2, <1>4, <1>5, <1>6, <1>7

LEMMA HandOffCloneStep ==
  ASSUME IInv, NEW h \in Handlers, HandOffClone(h)
  PROVE  IInv'
<1>0. /\ h \in Goroutines /\ h # Closer /\ TypeOK /\ Shape(go[h]) /\ go[h] \in GoState
      /\ go[h].pc = "handoff" /\ go[h].op = "prepare" /\ go[h].disposing = None
      /\ go[h].base \in Snapshots /\ go[h].new \in Snapshots
      /\ UNCHANGED <<current, refCount, snapVars, cacheVars, lockVars, closing, panicked>>
  BY Here DEF HandOffClone, Ready, Shape
<1> DEFINE r == [go[h] EXCEPT !.pc = "release", !.new = None]
<1>1. /\ r \in GoState /\ r.pc = "release" /\ r.op = "prepare" /\ r.new = None /\ r.base = go[h].base
      /\ r.build = go[h].build /\ r.fresh = go[h].fresh /\ r.disposing = None
  BY <1>0 DEF GoState, PCs
<1>2. HandOff([go EXCEPT ![h] = r], go[h].base, go[h].new)
  BY <1>0 DEF HandOffClone, TypeOK
<1> HIDE DEF r
<1>3. Shape(r) /\ CachesKept
  BY <1>0, <1>1 DEF Shape, CachesKept, snapVars, cacheVars
<1>4. \A s \in Snapshots : Weight(go[h], s) = Weight(r, s) + (IF s = go[h].new THEN 1 ELSE 0)
  BY <1>0, <1>1, ObjectsAssumption DEF Weight, BaseWeight, NewWeight, Bases, Owns, WantsRef
<1>5. CASE closing # "open" /\ go' = [go EXCEPT ![h] = r]
  <2>1. go' \in [Goroutines -> GoState] /\ OnlyMoved(go, go', h) /\ go'[h] = r
    BY <1>0, <1>1, <1>5, Moves
  <2>2. Places'
    <3>1. TypeOK'
      BY <1>0, <2>1 DEF TypeOK, snapVars, cacheVars, lockVars
    <3>2. Locks'
      BY <1>0, <1>1, <2>1 DEF OnlyMoved, Locks, Updating, IInv, lockVars
    <3>3. Closing'
      BY <1>0, <1>1, <2>1 DEF OnlyMoved, Closing, IInv, Goroutines
    <3>4. Unfailed'
      BY <1>0, <1>1, <2>1 DEF OnlyMoved, Unfailed, IInv, Bases, snapVars
    <3> QED
      BY <3>1, <3>2, <3>3, <3>4 DEF Places
  <2>3. ASSUME NEW s \in Snapshots
        PROVE  Weight(go'[h], s) <= Weight(go[h], s)
    <3>1. Weight(r, s) \in Nat /\ Weight(go[h], s) = Weight(r, s) + (IF s = go[h].new THEN 1 ELSE 0)
      BY <1>4, WeightType
    <3> QED
      BY <2>1, <3>1
  <2>4. KeepsBuild(h)
    BY <1>0, <1>1, <2>1 DEF KeepsBuild
  <2> QED
    BY <1>0, <1>1, <1>3, <1>5, <2>1, <2>2, <2>3, <2>4, StillStep
<1>6. ASSUME NEW t \in Tasks, closing = "open", Ready(t, "idle"),
             HandsTo(h, r, t, go[h].base, go[h].new)
      PROVE  IInv'
  <2>0. /\ t \in Goroutines /\ t # Closer /\ h # t /\ Shape(go[t])
        /\ go[t].pc = "idle" /\ go[t].disposing = None
    BY <1>6, Here, GoroutinesAssumption DEF Ready
  <2>1. /\ go' \in [Goroutines -> GoState] /\ go'[h] = r /\ TwoMove(h, t)
        /\ go'[t].pc = "start" /\ go'[t].op = "adopt" /\ go'[t].base = go[h].base
        /\ go'[t].new = go[h].new
        /\ go'[t].disposing = None /\ KeepsBuild(t) /\ Shape(go'[t])
        /\ \A s \in Snapshots :
              Weight(go'[t], s) = Weight(go[t], s) + (IF s = go[h].new THEN 1 ELSE 0)
    BY <1>0, <1>1, <1>6, <2>0, HandsOff
  <2>2. Places'
    <3>1. TypeOK'
      BY <1>0, <2>1 DEF TypeOK, snapVars, cacheVars, lockVars
    <3>2. Locks'
      BY <1>0, <1>1, <2>1 DEF TwoMove, Locks, Updating, IInv, lockVars
    <3>3. Closing'
      BY <1>0, <1>1, <1>6, <2>0, <2>1, Finite DEF TwoMove, Closing, IInv
    <3>4. Unfailed'
      BY <1>0, <1>1, <2>1 DEF TwoMove, Unfailed, IInv, Bases, snapVars
    <3> QED
      BY <3>1, <3>2, <3>3, <3>4 DEF Places
  <2>3. Disposals' /\ HoldsSame
    BY <1>0, <1>1, <1>3, <2>0, <2>1, TwoDisposals DEF TypeOK
  <2>4. ASSUME NEW s \in Snapshots
        PROVE  Balanced(s, Weight(go'[h], s) - Weight(go[h], s) + Weight(go'[t], s) - Weight(go[t], s))
    <3>1. /\ Weight(go[h], s) = Weight(go'[h], s) + (IF s = go[h].new THEN 1 ELSE 0)
          /\ Weight(go'[t], s) = Weight(go[t], s) + (IF s = go[h].new THEN 1 ELSE 0)
      BY <1>4, <2>1
    <3>2. Weight(go'[h], s) \in Nat /\ Weight(go[t], s) \in Nat /\ refCount[s] \in Int
      BY <1>0, WeightType DEF TypeOK
    <3> QED
      BY <1>0, <3>1, <3>2 DEF Balanced, SessionHas
  <2>5. KeepsBuild(h)
    BY <1>0, <1>1, <2>1 DEF KeepsBuild
  <2> QED
    BY <1>0, <1>3, <2>0, <2>1, <2>2, <2>3, <2>4, <2>5, TwoSteps
<1>7. \/ closing # "open" /\ go' = [go EXCEPT ![h] = r]
      \/ /\ closing = "open"
         /\ \E t \in Tasks : Ready(t, "idle") /\ HandsTo(h, r, t, go[h].base, go[h].new)
  BY <1>0, <1>1, <1>2, HandOffIs
<1> QED
  BY <1>5, <1>6, <1>7

LEMMA RetainStep ==
  ASSUME IInv, NEW h \in Handlers, Retain(h)
  PROVE  IInv'
<1>0. /\ h \in Goroutines /\ h # Closer /\ TypeOK /\ Shape(go[h]) /\ go[h] \in GoState
      /\ go[h].pc = "handoff" /\ go[h].op = "prepare" /\ go[h].disposing = None
      /\ go[h].base \in Snapshots /\ go[h].new \in Snapshots
      /\ UNCHANGED <<current, snapVars, cacheVars, lockVars, closing>>
  BY Here DEF Retain, Ready, Shape
<1> DEFINE r == [go[h] EXCEPT !.pc = "prepared"]
           x == go[h].new
<1>1. /\ r \in GoState /\ r.pc = "prepared" /\ r.op = "prepare" /\ r.new = x /\ r.base = go[h].base
      /\ r.build = go[h].build /\ r.fresh = go[h].fresh /\ r.disposing = None
  BY <1>0 DEF GoState, PCs
<1>2. HandOff([go EXCEPT ![h] = r], go[h].base, go[h].new)
  BY <1>0 DEF Retain, TypeOK
<1> HIDE DEF r
<1>a. /\ refCount[x] \in Int /\ refCount[x] >= 1 /\ refCount' \in [Snapshots -> Int]
      /\ \A s \in Snapshots : /\ refCount[s] \in Int
                              /\ refCount'[s] = refCount[s] + (IF s = x THEN 1 ELSE 0)
      /\ panicked' = panicked
  <2>1. refCount[x] \in Int /\ refCount[x] >= 1
    BY <1>0, Alive DEF IInv, Counts, Owns
  <2>2. refCount' = [refCount EXCEPT ![x] = @ + 1] /\ panicked' = (panicked \/ RefPanics(x))
    BY DEF Retain
  <2> QED
    BY <1>0, <2>1, <2>2 DEF TypeOK, RefPanics
<1>b. \A s \in Snapshots : refCount'[s] > 0 <=> refCount[s] > 0
  BY <1>a
<1>3. Shape(r) /\ CachesKept
  BY <1>0, <1>1, <1>a DEF Shape, CachesKept, snapVars, cacheVars
<1>4. \A s \in Snapshots : Weight(go[h], s) = Weight(r, s)
  BY <1>0, <1>1, ObjectsAssumption DEF Weight, BaseWeight, NewWeight, Bases, Owns, WantsRef
<1>5. CASE closing # "open" /\ go' = [go EXCEPT ![h] = r]
  <2>1. go' \in [Goroutines -> GoState] /\ OnlyMoved(go, go', h) /\ go'[h] = r
    BY <1>0, <1>1, <1>5, Moves
  <2>2. Places'
    <3>1. TypeOK'
      BY <1>0, <1>a, <2>1 DEF TypeOK, snapVars, cacheVars, lockVars
    <3>2. Locks'
      BY <1>0, <1>1, <2>1 DEF OnlyMoved, Locks, Updating, IInv, lockVars
    <3>3. Closing'
      BY <1>0, <1>1, <2>1 DEF OnlyMoved, Closing, IInv, Goroutines
    <3>4. Unfailed'
      BY <1>0, <1>1, <2>1 DEF OnlyMoved, Unfailed, IInv, Bases, snapVars
    <3> QED
      BY <3>1, <3>2, <3>3, <3>4 DEF Places
  <2>3. Disposals' /\ HoldsSame
    <3>1. \A k \in Goroutines : SameDisposal(k)
      BY <1>0, <1>1, <2>1 DEF OnlyMoved, SameDisposal
    <3> QED
      BY <1>0, <1>3, <1>a, <1>b, <3>1, RefsStay DEF IInv, CachesKept
  <2>4. ASSUME NEW s \in Snapshots
        PROVE  Balanced(s, Weight(go'[h], s) - Weight(go[h], s))
    <3>1. Weight(go'[h], s) = Weight(go[h], s) /\ Weight(go[h], s) \in Nat
      BY <1>4, <2>1, WeightType
    <3>2. refCount[s] \in Int /\ refCount'[s] >= refCount[s]
      BY <1>a
    <3> QED
      BY <1>0, <1>5, <3>1, <3>2 DEF Balanced, SessionHas
  <2>5. KeepsBuild(h)
    BY <1>0, <1>1, <2>1 DEF KeepsBuild
  <2> QED
    BY <1>0, <1>3, <2>1, <2>2, <2>3, <2>4, <2>5, OneStep
<1>6. ASSUME NEW t \in Tasks, closing = "open", Ready(t, "idle"),
             HandsTo(h, r, t, go[h].base, go[h].new)
      PROVE  IInv'
  <2>0. /\ t \in Goroutines /\ t # Closer /\ h # t /\ Shape(go[t])
        /\ go[t].pc = "idle" /\ go[t].disposing = None
    BY <1>6, Here, GoroutinesAssumption DEF Ready
  <2>1. /\ go' \in [Goroutines -> GoState] /\ go'[h] = r /\ TwoMove(h, t)
        /\ go'[t].pc = "start" /\ go'[t].op = "adopt" /\ go'[t].base = go[h].base
        /\ go'[t].new = go[h].new
        /\ go'[t].disposing = None /\ KeepsBuild(t) /\ Shape(go'[t])
        /\ \A s \in Snapshots :
              Weight(go'[t], s) = Weight(go[t], s) + (IF s = go[h].new THEN 1 ELSE 0)
    BY <1>0, <1>1, <1>6, <2>0, HandsOff
  <2>2. Places'
    <3>1. TypeOK'
      BY <1>0, <1>a, <2>1 DEF TypeOK, snapVars, cacheVars, lockVars
    <3>2. Locks'
      BY <1>0, <1>1, <2>1 DEF TwoMove, Locks, Updating, IInv, lockVars
    <3>3. Closing'
      BY <1>0, <1>1, <1>6, <2>0, <2>1, Finite DEF TwoMove, Closing, IInv
    <3>4. Unfailed'
      BY <1>0, <1>1, <2>1 DEF TwoMove, Unfailed, IInv, Bases, snapVars
    <3> QED
      BY <3>1, <3>2, <3>3, <3>4 DEF Places
  <2>3. Disposals' /\ HoldsSame
    BY <1>0, <1>1, <1>3, <1>a, <1>b, <2>0, <2>1, TwoDisposals
  <2>4. ASSUME NEW s \in Snapshots
        PROVE  Balanced(s, Weight(go'[h], s) - Weight(go[h], s) + Weight(go'[t], s) - Weight(go[t], s))
    <3>1. /\ Weight(go'[h], s) = Weight(go[h], s)
          /\ Weight(go'[t], s) = Weight(go[t], s) + (IF s = go[h].new THEN 1 ELSE 0)
      BY <1>4, <2>1
    <3>2. Weight(go[h], s) \in Nat /\ Weight(go[t], s) \in Nat
      BY WeightType
    <3> QED
      BY <1>0, <1>a, <3>1, <3>2 DEF Balanced, SessionHas
  <2>5. KeepsBuild(h)
    BY <1>0, <1>1, <2>1 DEF KeepsBuild
  <2> QED
    BY <1>0, <1>3, <2>0, <2>1, <2>2, <2>3, <2>4, <2>5, TwoSteps
<1>7. \/ closing # "open" /\ go' = [go EXCEPT ![h] = r]
      \/ /\ closing = "open"
         /\ \E t \in Tasks : Ready(t, "idle") /\ HandsTo(h, r, t, go[h].base, go[h].new)
  BY <1>0, <1>1, <1>2, HandOffIs
<1> QED
  BY <1>5, <1>6, <1>7

\* The clone h has built of the session's snapshot becomes the session's snapshot.
LEMMA InstallCloneStep ==
  ASSUME IInv, NEW h \in Handlers, InstallClone(h)
  PROVE  IInv'
<1> DEFINE old == go[h].base
           new == go[h].new
           r == [go[h] EXCEPT !.pc = "unlock",
                   !.disposing = IF refCount[old] = 1 /\ AllOf(old) # {} THEN old ELSE None,
                   !.todo = IF refCount[old] = 1 THEN AllOf(old) ELSE {}]
<1>0. /\ h \in Goroutines /\ h # Closer /\ TypeOK /\ Shape(go[h]) /\ go[h] \in GoState
      /\ go[h].pc = "install" /\ go[h].op \in Updates /\ go[h].disposing = None
      /\ old \in Snapshots /\ new \in Snapshots /\ new # old
      /\ UNCHANGED <<snapVars, cacheVars, lockVars, closing>> /\ current' = new
      /\ new \notin apiError
  BY Here DEF InstallClone, Ready, Shape, Rejects
<1>1. old = current /\ snapshotMu = h /\ closing # "closed"
  BY <1>0 DEF IInv, Locks, Updating
<1>2. /\ r \in GoState /\ r.pc = "unlock" /\ r.op = go[h].op /\ r.base = old /\ r.new = new
      /\ r.build = go[h].build /\ r.fresh = go[h].fresh
      /\ r.disposing = IF refCount[old] = 1 /\ AllOf(old) # {} THEN old ELSE None
      /\ r.todo = IF refCount[old] = 1 THEN AllOf(old) ELSE {}
  BY <1>0 DEF GoState, PCs, AllOf
<1>3. go' = [go EXCEPT ![h] = r]
  <2>1. go' = [go EXCEPT ![h].pc = "unlock",
                 ![h].disposing = IF refCount[old] = 1 /\ AllOf(old) # {} THEN old ELSE None,
                 ![h].todo = IF refCount[old] = 1 THEN AllOf(old) ELSE {}]
    BY DEF InstallClone, AllOf
  <2> QED
    BY <1>0, <2>1 DEF TypeOK
<1> HIDE DEF r
<1>4. go' \in [Goroutines -> GoState] /\ OnlyMoved(go, go', h) /\ go'[h] = r
  BY <1>0, <1>2, <1>3, Moves
<1>5. \A s \in Snapshots : refCount[s] \in Int
  BY <1>0 DEF TypeOK
<1>6. /\ refCount[old] >= 1 /\ refCount[new] >= 1
  BY <1>0, <1>1, Alive DEF IInv, Counts, Owns
<1> DEFINE c == IF WantsRef(go[h].op) THEN 1 ELSE 0
<1>7. /\ refCount' \in [Snapshots -> Int]
      /\ refCount'[old] = refCount[old] - 1 /\ refCount'[new] = refCount[new] + c
      /\ \A s \in Snapshots : s \notin {old, new} => refCount'[s] = refCount[s]
  <2>1. refCount' = [refCount EXCEPT ![new] = @ + CallerRef(go[h].op), ![old] = @ - 1]
    BY DEF InstallClone
  <2> QED
    BY <1>0, <1>5, <2>1 DEF TypeOK, CallerRef
<1>8. CachesKept
  <2>1. panicked' = (panicked \/ refCount[old] < 1)
    BY DEF InstallClone
  <2> QED
    BY <1>0, <1>5, <1>6, <2>1 DEF CachesKept, snapVars, cacheVars, TypeOK
<1>9. KeepsBuild(h) /\ Shape(go'[h])
  BY <1>0, <1>2, <1>4 DEF KeepsBuild, Shape
<1>10. Places'
  <2>1. TypeOK'
    BY <1>0, <1>4, <1>7, <1>8 DEF TypeOK, snapVars, cacheVars, lockVars, CachesKept
  <2>2. Locks'
    BY <1>0, <1>1, <1>2, <1>4 DEF OnlyMoved, Locks, Updating, IInv, lockVars
  <2>3. Closing'
    BY <1>0, <1>1, <1>2, <1>4, ObjectsAssumption DEF OnlyMoved, Closing, IInv, Goroutines
  <2>4. Unfailed'
    BY <1>0, <1>2, <1>4 DEF OnlyMoved, Unfailed, IInv, Bases, Updates, snapVars
  <2> QED
    BY <2>1, <2>2, <2>3, <2>4 DEF Places
<1>11. Disposals' /\ HoldsSame
  <2>1. \A k \in Goroutines : k # h => SameDisposal(k)
    BY <1>4 DEF OnlyMoved, SameDisposal
  <2>2. Disposes(h, old)
    BY <1>2, <1>4 DEF Disposes
  <2>3. \A s \in Snapshots : s # old => (refCount'[s] > 0 <=> refCount[s] > 0)
    BY <1>0, <1>5, <1>6, <1>7
  <2> QED
    BY <1>0, <1>6, <1>7, <1>8, <2>1, <2>2, <2>3, RefGoes DEF IInv, CachesKept
<1>12. ASSUME NEW s \in Snapshots
       PROVE  Balanced(s, Weight(go'[h], s) - Weight(go[h], s))
  <2>1. Weight(go[h], s) = IF s = new THEN 1 ELSE 0
    BY <1>0 DEF Weight, BaseWeight, NewWeight, Bases, Owns, Updates
  <2>2. Weight(go'[h], s) = IF s = new THEN c ELSE 0
    BY <1>0, <1>2, <1>4 DEF Weight, BaseWeight, NewWeight, Bases, Owns, Updates
  <2> QED
    BY <1>0, <1>1, <1>5, <1>7, <2>1, <2>2 DEF Balanced, SessionHas
<1> QED
  BY <1>0, <1>4, <1>8, <1>9, <1>10, <1>11, <1>12, OneStep

LEMMA BeginCloseStep ==
  ASSUME IInv, BeginClose
  PROVE  IInv'
<1>0. /\ TypeOK /\ Closer \in Goroutines /\ go[Closer].pc = "idle" /\ go[Closer].disposing = None
      /\ UNCHANGED <<current, refCount, snapVars, cacheVars, lockVars, go, panicked>>
      /\ closing = "open" /\ closing' = "closing"
      /\ \A g \in Goroutines : go[g].pc = "host" => updateMu = g
  BY Finite DEF IInv, Closing, BeginClose
<1>1. CachesKept /\ OnlyMoved(go, go', Closer) /\ KeepsBuild(Closer) /\ Shape(go'[Closer])
  BY <1>0 DEF CachesKept, snapVars, cacheVars, OnlyMoved, KeepsBuild, IInv, Shapes
<1>2. Places'
  <2>1. TypeOK'
    BY <1>0 DEF TypeOK, snapVars, cacheVars, lockVars
  <2>2. Locks'
    BY <1>0 DEF Locks, Updating, IInv, lockVars
  <2>3. Closing'
    BY <1>0 DEF Closing, IInv
  <2>4. Unfailed'
    BY <1>0 DEF Unfailed, IInv, snapVars
  <2> QED
    BY <2>1, <2>2, <2>3, <2>4 DEF Places
<1>3. Disposals' /\ HoldsSame
  <2>1. \A k \in Goroutines : SameDisposal(k)
    BY <1>0 DEF SameDisposal
  <2>2. refCount' \in [Snapshots -> Int] /\ \A s \in Snapshots : refCount'[s] > 0 <=> refCount[s] > 0
    BY <1>0 DEF TypeOK
  <2> QED
    BY <1>0, <1>1, <2>1, <2>2, RefsStay DEF IInv, CachesKept
<1>4. ASSUME NEW s \in Snapshots
      PROVE  Balanced(s, Weight(go'[Closer], s) - Weight(go[Closer], s))
  <2>1. Weight(go'[Closer], s) = Weight(go[Closer], s) /\ Weight(go[Closer], s) \in Nat
    BY <1>0, WeightType
  <2>2. refCount[s] \in Int
    BY <1>0 DEF TypeOK
  <2> QED
    BY <1>0, <2>1, <2>2 DEF Balanced, SessionHas
<1> QED
  BY <1>0, <1>1, <1>2, <1>3, <1>4, OneStep

LEMMA FinishCloseStep ==
  ASSUME IInv, FinishClose
  PROVE  IInv'
<1>0. /\ TypeOK /\ Closer \in Goroutines /\ go[Closer].pc = "idle" /\ go[Closer].disposing = None
      /\ go[Closer] \in GoState /\ Shape(go[Closer])
      /\ UNCHANGED <<snapVars, cacheVars, lockVars>>
      /\ closing = "closing" /\ closing' = "closed" /\ current' = None
      /\ updateMu = None /\ snapshotMu = None
      /\ \A t \in Tasks : go[t].pc = "idle"
      /\ current \in Snapshots
  BY Finite, GoFields DEF IInv, Closing, FinishClose, Ready, Shapes, TypeOK
<1>1. refCount[current] >= 1
  BY <1>0, Alive DEF IInv, Counts
<1>2. Deref(Closer, current, [go EXCEPT ![Closer] = go[Closer]])
  <2>1. go = [go EXCEPT ![Closer] = go[Closer]]
    BY <1>0 DEF TypeOK
  <2> QED
    BY <2>1 DEF FinishClose
<1> DEFINE r == go[Closer]
<1>3. /\ go' \in [Goroutines -> GoState] /\ OnlyMoved(go, go', Closer)
      /\ go'[Closer].pc = r.pc /\ go'[Closer].op = r.op
      /\ go'[Closer].base = r.base /\ go'[Closer].new = r.new
      /\ go'[Closer].build = r.build /\ go'[Closer].fresh = r.fresh
      /\ Disposes(Closer, current) /\ panicked' = panicked
      /\ refCount' = [refCount EXCEPT ![current] = @ - 1] /\ refCount' \in [Snapshots -> Int]
  BY <1>0, <1>1, <1>2, DerefMoves
<1>4. CachesKept /\ KeepsBuild(Closer) /\ Shape(go'[Closer])
  BY <1>0, <1>3 DEF CachesKept, snapVars, cacheVars, KeepsBuild, Shape
<1>5. Places'
  <2>1. TypeOK'
    BY <1>0, <1>3 DEF TypeOK, snapVars, cacheVars, lockVars
  <2>2. \A k \in Goroutines : go'[k].pc = go[k].pc /\ go'[k].op = go[k].op
                              /\ go'[k].base = go[k].base /\ go'[k].new = go[k].new
    BY <1>3 DEF OnlyMoved
  <2>3. \A k \in Goroutines : snapshotMu # k /\ updateMu # k
    BY <1>0, Finite
  <2>4. Locks'
    BY <1>0, <2>2, <2>3 DEF Locks, Updating, IInv, lockVars
  <2>5. Closing'
    BY <1>0, <2>2 DEF Closing, Goroutines
  <2>6. Unfailed'
    BY <1>0, <2>2, ObjectsAssumption DEF Unfailed, IInv, snapVars, Bases, TypeOK
  <2> QED
    BY <2>1, <2>4, <2>5, <2>6 DEF Places
<1>6. ASSUME NEW s \in Snapshots
      PROVE  Weight(go'[Closer], s) + SessionHas(current', s) + (IF s = current THEN 1 ELSE 0)
               = Weight(go[Closer], s) + SessionHas(current, s)
  <2>1. Weight(go'[Closer], s) = Weight(go[Closer], s) /\ Weight(go[Closer], s) \in Nat
    BY <1>3, WeightType DEF Weight, BaseWeight, NewWeight, Bases, Owns
  <2> QED
    BY <1>0, <2>1, ObjectsAssumption DEF SessionHas
<1> QED
  BY <1>0, <1>1, <1>3, <1>4, <1>5, <1>6, DropStep

-----------------------------------------------------------------------------
(* Steps of a clone.                                                            *)

\* A program of a clone is the clone's own or one that its base holds.
LEMMA BuildLive ==
  ASSUME IInv, NEW g \in Goroutines, NEW p \in Projects, go[g].build[p] # None
  PROVE  /\ go[g].build[p] \in Programs /\ go[g].build[p] \notin orphans
         /\ go[g].build[p] \in go[g].fresh \/ counter[go[g].build[p]] > 0
         /\ Live(go[g].build[p])
<1> DEFINE q == go[g].build[p]
           s == go[g].base
<1>1. TypeOK /\ Shape(go[g]) /\ go[g] \in GoState
  BY GoFields DEF IInv, Shapes
<1>2. go[g].pc = "cloning"
  BY <1>1 DEF Shape, NoPrograms
<1>3. q \in Programs
  BY <1>1 DEF GoState
<1>4. q \notin orphans
  BY DEF IInv, FreshAlone
<1>5. q \in go[g].fresh \/ q = programs[s][p]
  BY DEF IInv, Clones
<1>6. s \in Snapshots /\ go[g].op \in Updates \cup {"prepare", "warm"}
  BY <1>1, <1>2 DEF Shape
<1>7. refCount[s] \in Int /\ refCount[s] >= 1
  <2>1. s = current \/ Bases(go[g])
    BY <1>2, <1>6 DEF IInv, Locks, Updating, Bases
  <2> QED
    BY <1>6, <2>1, Alive DEF IInv, Counts
<1>8. q = programs[s][p] => counter[q] > 0
  <2>1. Holds(s, p)
    BY <1>7 DEF Holds
  <2> QED
    BY <1>6, <2>1, ProgramHeld DEF IInv, Counts
<1> QED
  BY <1>3, <1>4, <1>5, <1>8 DEF Live

\* What g does to its clone changes nothing else of it.
Clone(g) == /\ go'[g].pc = go[g].pc /\ go'[g].op = go[g].op
            /\ go'[g].base = go[g].base /\ go'[g].new = go[g].new
            /\ go'[g].disposing = go[g].disposing /\ go'[g].todo = go[g].todo

LEMMA CloneStep ==
  ASSUME IInv, NEW g \in Goroutines, go[g].pc = "cloning", OnlyMoved(go, go', g), Clone(g),
         UNCHANGED <<current, refCount, programs, apiError, counter, lockVars, closing, panicked>>,
         TypeOK', Clones', FreshAlone', FilesTracked'
  PROVE  IInv'
<1>1. Shapes'
  BY DEF IInv, Shapes, OnlyMoved, Clone, Shape
<1>2. Locks'
  BY DEF IInv, Locks, Updating, OnlyMoved, Clone, lockVars
<1>3. Closing'
  BY DEF IInv, Closing, OnlyMoved, Clone, Goroutines
<1>4. Unfailed'
  BY DEF IInv, Unfailed, OnlyMoved, Clone, Bases
<1>5. Disposals'
  BY DEF IInv, Disposals, OnlyMoved, Clone
<1>6. \A k \in Goroutines : go'[k].disposing = go[k].disposing /\ go'[k].todo = go[k].todo
  BY DEF OnlyMoved, Clone
<1>7. ProgramsTracked'
  <2>1. \A s \in Snapshots, p \in Projects : Holds(s, p)' <=> Holds(s, p)
    BY <1>6 DEF Holds
  <2>2. \A q \in Programs : Holders(q)' = Holders(q)
    BY <2>1 DEF Holders
  <2>3. \A q \in Programs : counter[q] = Cardinality(Holders(q))
    BY DEF IInv, Counts, ProgramsTracked, Holders
  <2>4. \A q \in Programs : counter'[q] = Cardinality(Holders(q)')
    BY <2>2, <2>3
  <2> QED
    BY <2>4 DEF ProgramsTracked, Holders
<1>8. OwnersCounted'
  <2> SUFFICES ASSUME NEW s \in Snapshots
               PROVE  /\ refCount'[s] >= Owners(s)'
                      /\ closing' = "open" => refCount'[s] = Owners(s)'
    BY DEF OwnersCounted
  <2>1. Weight(go'[g], s) = Weight(go[g], s) /\ Weight(go[g], s) \in Nat
    BY WeightType DEF Clone, Weight, BaseWeight, NewWeight, Bases, Owns
  <2>2. Count(go', s) = Count(go, s) + Weight(go'[g], s) - Weight(go[g], s)
    BY OneMoved
  <2>3. Count(go', s) = Count(go, s) + 0
    BY <2>1, <2>2, CountType
  <2>4. refCount[s] \in Int /\ refCount'[s] \in Int
    BY DEF IInv, TypeOK
  <2>5. Balanced(s, 0)
    BY <2>4 DEF Balanced, SessionHas
  <2> QED
    BY <2>3, <2>4, <2>5, BalancedOwners
<1> QED
  BY <1>1, <1>2, <1>3, <1>4, <1>5, <1>7, <1>8 DEF IInv, Counts, NoPanic

\* Removing a project's program from a clone: old, unless another clone holds it, is lost.
LEMMA OldIsAlone ==
  ASSUME IInv, NEW g \in Goroutines, NEW p \in Projects, NEW old, old = go[g].build[p],
         old \in go[g].fresh
  PROVE  /\ old \in Programs /\ counter[old] = 0 /\ old \notin orphans
         /\ \A k \in Goroutines, p2 \in Projects :
               go[k].build[p2] = old => k = g /\ p2 = p
<1>1. old \in Programs /\ old # None
  BY GoFields, ObjectsAssumption DEF IInv
<1>2. counter[old] = 0 /\ old \notin orphans
  BY DEF IInv, FreshAlone
<1>3. ASSUME NEW k \in Goroutines, NEW p2 \in Projects, go[k].build[p2] = old
      PROVE  k = g /\ p2 = p
  <2>1. old \in go[k].fresh
    BY <1>1, <1>2, <1>3, BuildLive
  <2>2. k = g
    BY <2>1 DEF IInv, FreshAlone
  <2> QED
    BY <1>1, <1>3, <2>2 DEF IInv, Clones, Apart
<1> QED
  BY <1>1, <1>2, <1>3

LEMMA DeleteProjectStep ==
  ASSUME IInv, NEW g \in Goroutines, NEW p \in Projects, DeleteProject(g, p)
  PROVE  IInv'
<1> DEFINE old == go[g].build[p]
           r == [go[g] EXCEPT !.build[p] = None, !.builds = @ + 1, !.fresh = @ \ {old}]
<1>0. /\ TypeOK /\ Shape(go[g]) /\ go[g] \in GoState /\ go[g].pc = "cloning" /\ old # None
      /\ go[g].builds < MaxBuilds /\ go[g].builds \in 0 .. MaxBuilds
      /\ go[g].build \in [Projects -> Programs \cup {None}] /\ go[g].fresh \subseteq Programs
      /\ orphans' = orphans \cup ({old} \cap go[g].fresh)
      /\ UNCHANGED <<current, refCount, snapVars, counter, files, discarded, parseRefs,
                     lockVars, closing, panicked>>
  BY GoFields DEF DeleteProject, Ready, IInv, Shapes, Dropped
<1>1. /\ r \in GoState /\ r.pc = go[g].pc /\ r.op = go[g].op /\ r.base = go[g].base
      /\ r.new = go[g].new /\ r.disposing = go[g].disposing /\ r.todo = go[g].todo
      /\ r.build = [go[g].build EXCEPT ![p] = None] /\ r.fresh = go[g].fresh \ {old}
  <2>1. go[g].builds + 1 \in 0 .. MaxBuilds
    BY <1>0, BoundAssumption
  <2>2. [go[g].build EXCEPT ![p] = None] \in [Projects -> Programs \cup {None}]
    BY <1>0
  <2> QED
    BY <1>0, <2>1, <2>2 DEF GoState
<1>2. go' = [go EXCEPT ![g] = r]
  BY <1>0 DEF DeleteProject, TypeOK
<1> HIDE DEF r
<1>3. go' \in [Goroutines -> GoState] /\ OnlyMoved(go, go', g) /\ go'[g] = r
  BY <1>0, <1>1, <1>2, Moves
<1>4. Clone(g)
  BY <1>1, <1>3 DEF Clone
<1>5. /\ \A p2 \in Projects : go'[g].build[p2] = IF p2 = p THEN None ELSE go[g].build[p2]
      /\ go'[g].fresh = go[g].fresh \ {old}
  BY <1>0, <1>1, <1>3
<1>6. old \in Programs /\ Live(old)
  BY <1>0, BuildLive
<1>7. TypeOK'
  <2>1. orphans' \in SUBSET Programs
    BY <1>0, <1>6 DEF TypeOK
  <2> QED
    BY <1>0, <1>3, <2>1 DEF TypeOK, snapVars, lockVars
<1>8. Clones'
  <2>1. \A s \in Snapshots : Apart(programs'[s])
    BY <1>0 DEF IInv, Clones, snapVars
  <2>2. Apart(go'[g].build)
    BY <1>5 DEF IInv, Clones, Apart
  <2>3. \A q \in go'[g].fresh : \E p2 \in Projects : go'[g].build[p2] = q
    <3> SUFFICES ASSUME NEW q \in go'[g].fresh
                 PROVE  \E p2 \in Projects : go'[g].build[p2] = q
      OBVIOUS
    <3>1. q \in go[g].fresh /\ q # old
      BY <1>5
    <3>2. PICK p2 \in Projects : go[g].build[p2] = q
      BY <3>1 DEF IInv, Clones
    <3> QED
      BY <1>5, <3>1, <3>2
  <2>4. \A p2 \in Projects : \/ go'[g].build[p2] = None \/ go'[g].build[p2] \in go'[g].fresh
                             \/ go'[g].build[p2] = programs'[go'[g].base][p2]
    <3> SUFFICES ASSUME NEW p2 \in Projects, p2 # p, go[g].build[p2] # None
                 PROVE  \/ go'[g].build[p2] \in go'[g].fresh
                        \/ go'[g].build[p2] = programs'[go'[g].base][p2]
      BY <1>5
    <3>1. go[g].build[p2] # old
      BY <1>0 DEF IInv, Clones, Apart
    <3> QED
      BY <1>0, <1>4, <1>5, <3>1 DEF IInv, Clones, Clone, snapVars
  <2>5. ASSUME NEW k \in Goroutines, k # g
        PROVE  /\ Apart(go'[k].build)
               /\ \A q \in go'[k].fresh : \E p2 \in Projects : go'[k].build[p2] = q
               /\ \A p2 \in Projects : \/ go'[k].build[p2] = None \/ go'[k].build[p2] \in go'[k].fresh
                                       \/ go'[k].build[p2] = programs'[go'[k].base][p2]
    BY <1>0, <1>3, <2>5 DEF OnlyMoved, IInv, Clones, snapVars
  <2> QED
    BY <2>1, <2>2, <2>3, <2>4, <2>5 DEF Clones, Apart
<1>9. FreshAlone'
  <2>1. \A k \in Goroutines : go'[k].fresh \subseteq go[k].fresh
    BY <1>3, <1>5 DEF OnlyMoved
  <2>2. ASSUME NEW k \in Goroutines, NEW q \in go'[k].fresh
        PROVE  q \notin orphans'
    <3>1. q \in go[k].fresh /\ q \notin orphans
      BY <2>1 DEF IInv, FreshAlone
    <3>2. q = old => q \notin go[g].fresh
      <4>1. q = old /\ q \in go[g].fresh => k = g
        BY <3>1 DEF IInv, FreshAlone
      <4> QED
        BY <1>5, <2>2, <4>1
    <3> QED
      BY <1>0, <3>1, <3>2
  <2>3. ASSUME NEW q \in orphans'
        PROVE  counter[q] = 0 /\ \A k \in Goroutines, p2 \in Projects : go'[k].build[p2] # q
    <3>1. CASE q \in orphans
      <4>1. q # None
        BY <1>0, <3>1, ObjectsAssumption DEF TypeOK
      <4> QED
        BY <1>3, <1>5, <3>1, <4>1 DEF OnlyMoved, IInv, FreshAlone
    <3>2. CASE q = old /\ old \in go[g].fresh
      <4>1. counter[old] = 0 /\ \A k \in Goroutines, p2 \in Projects :
               go[k].build[p2] = old => k = g /\ p2 = p
        BY <3>2, OldIsAlone
      <4> QED
        BY <1>0, <1>3, <1>5, <3>2, <4>1 DEF OnlyMoved
    <3> QED
      BY <1>0, <2>3, <3>1, <3>2
  <2> QED
    BY <1>0, <2>1, <2>2, <2>3 DEF IInv, FreshAlone
<1>10. FilesTracked'
  <2>1. \A q \in Programs : Live(q)' <=> Live(q)
    BY <1>0, <1>3, <1>5, <1>6 DEF OnlyMoved, Live
  <2>2. \A f \in Files : Containing(f)' = Containing(f)
    BY <1>0, <2>1 DEF Containing
  <2>3. \A f \in Files : parseRefs[f] = Cardinality(Containing(f))
    BY DEF IInv, Counts, FilesTracked, Containing, Live
  <2>4. \A f \in Files : parseRefs'[f] = Cardinality(Containing(f)')
    BY <1>0, <2>2, <2>3
  <2> QED
    BY <2>4 DEF FilesTracked, Containing, Live
<1> QED
  BY <1>0, <1>3, <1>4, <1>7, <1>8, <1>9, <1>10, CloneStep DEF snapVars

LEMMA UpdateProgramStep ==
  ASSUME IInv, NEW g \in Goroutines, NEW p \in Projects, UpdateProgram(g, p)
  PROVE  IInv'
<1> DEFINE old == go[g].build[p]
<1>a. PICK q \in FreePrograms, fs \in SUBSET Files :
        /\ Rebuild(g, p, fs) \/ CloneProgram(g, p, fs)
        /\ files' = [files EXCEPT ![q] = fs]
        /\ parseRefs' = [f \in Files |-> IF f \in fs THEN parseRefs[f] + 1 ELSE parseRefs[f]]
        /\ discarded' = (discarded \ {q}) \cup ({old} \ {None})
        /\ orphans' = orphans \cup ({old} \cap go[g].fresh)
        /\ go' = [go EXCEPT ![g].build[p] = q, ![g].builds = @ + 1,
                            ![g].fresh = (@ \ {old}) \cup {q}]
  BY DEF UpdateProgram, Dropped
<1> DEFINE r == [go[g] EXCEPT !.build[p] = q, !.builds = @ + 1, !.fresh = (@ \ {old}) \cup {q}]
<1>0. /\ TypeOK /\ Shape(go[g]) /\ go[g] \in GoState /\ go[g].pc = "cloning"
      /\ go[g].builds < MaxBuilds /\ go[g].builds \in 0 .. MaxBuilds
      /\ go[g].build \in [Projects -> Programs \cup {None}] /\ go[g].fresh \subseteq Programs
      /\ UNCHANGED <<current, refCount, snapVars, counter, lockVars, closing>>
  BY GoFields DEF UpdateProgram, Ready, IInv, Shapes
<1>b. /\ q \in Programs /\ q \notin orphans /\ counter[q] = 0 /\ q # None
      /\ \A k \in Goroutines : q \notin go[k].fresh /\ \A p2 \in Projects : go[k].build[p2] # q
      /\ ~Live(q)
  BY ObjectsAssumption DEF FreePrograms, Live
<1>1. /\ r \in GoState /\ r.pc = go[g].pc /\ r.op = go[g].op /\ r.base = go[g].base
      /\ r.new = go[g].new /\ r.disposing = go[g].disposing /\ r.todo = go[g].todo
      /\ r.build = [go[g].build EXCEPT ![p] = q] /\ r.fresh = (go[g].fresh \ {old}) \cup {q}
  <2>1. go[g].builds + 1 \in 0 .. MaxBuilds
    BY <1>0, BoundAssumption
  <2>2. [go[g].build EXCEPT ![p] = q] \in [Projects -> Programs \cup {None}]
    BY <1>0, <1>b
  <2> QED
    BY <1>0, <1>b, <2>1, <2>2 DEF GoState
<1>2. go' = [go EXCEPT ![g] = r]
  BY <1>0, <1>a DEF TypeOK
<1> HIDE DEF r
<1>3. go' \in [Goroutines -> GoState] /\ OnlyMoved(go, go', g) /\ go'[g] = r
  BY <1>0, <1>1, <1>2, Moves
<1>4. Clone(g)
  BY <1>1, <1>3 DEF Clone
<1>5. /\ \A p2 \in Projects : go'[g].build[p2] = IF p2 = p THEN q ELSE go[g].build[p2]
      /\ go'[g].fresh = (go[g].fresh \ {old}) \cup {q}
  BY <1>0, <1>1, <1>3
<1>6. old # None => old \in Programs /\ Live(old)
  BY BuildLive
<1>c. q # old
  BY <1>b
<1>f. \A f \in Files : /\ parseRefs[f] \in Nat /\ IsFiniteSet(Containing(f))
                       /\ parseRefs[f] = Cardinality(Containing(f))
  <2>1. \A f \in Files : Containing(f) \in SUBSET Programs
    BY DEF Containing
  <2>2. \A f \in Files : IsFiniteSet(Containing(f))
    BY <2>1, ObjectsAssumption, FS_Subset
  <2>3. \A f \in Files : parseRefs[f] = Cardinality(Containing(f))
    BY DEF IInv, Counts, FilesTracked, Containing, Live
  <2> QED
    BY <1>0, <2>2, <2>3 DEF TypeOK
<1>7. TypeOK'
  <2>1. orphans' \in SUBSET Programs /\ discarded' \in SUBSET Programs
    BY <1>0, <1>6, <1>a DEF TypeOK
  <2>2. files' \in [Programs -> SUBSET Files] /\ parseRefs' \in [Files -> Nat]
    <3>1. \A f \in Files : parseRefs'[f] \in Nat
      BY <1>a, <1>f
    <3>2. parseRefs' \in [Files -> Nat]
      BY <1>a, <1>f, <3>1
    <3>3. files' \in [Programs -> SUBSET Files]
      BY <1>0, <1>a DEF TypeOK
    <3> QED
      BY <3>2, <3>3
  <2>3. panicked' \in BOOLEAN
    BY <1>0, <1>a DEF TypeOK, Rebuild, CloneProgram
  <2> QED
    BY <1>0, <1>3, <2>1, <2>2, <2>3 DEF TypeOK, snapVars, lockVars
<1>d. panicked' = panicked
  <2>1. CASE Rebuild(g, p, fs)
    BY <2>1 DEF Rebuild
  <2>2. CASE CloneProgram(g, p, fs)
    <3>1. old # None /\ panicked' = (panicked \/ \E f \in fs \cap files[old] : parseRefs[f] = 0)
      BY <2>2 DEF CloneProgram
    <3>2. \A f \in fs \cap files[old] : parseRefs[f] # 0
      <4>1. \A f \in fs \cap files[old] : f \in Files /\ old \in Containing(f)
        BY <1>6, <3>1 DEF Containing
      <4> QED
        BY <1>f, <4>1, FS_EmptySet
    <3> QED
      BY <1>0, <3>1, <3>2 DEF TypeOK
  <2> QED
    BY <1>a, <2>1, <2>2
<1>8. Clones'
  <2>1. \A s \in Snapshots : Apart(programs'[s])
    BY <1>0 DEF IInv, Clones, snapVars
  <2>2. Apart(go'[g].build)
    BY <1>5, <1>b DEF IInv, Clones, Apart
  <2>3. \A x \in go'[g].fresh : \E p2 \in Projects : go'[g].build[p2] = x
    <3> SUFFICES ASSUME NEW x \in go'[g].fresh, x # q
                 PROVE  \E p2 \in Projects : go'[g].build[p2] = x
      BY <1>5
    <3>1. x \in go[g].fresh /\ x # old
      BY <1>5
    <3>2. PICK p2 \in Projects : go[g].build[p2] = x
      BY <3>1 DEF IInv, Clones
    <3> QED
      BY <1>5, <3>1, <3>2
  <2>4. \A p2 \in Projects : \/ go'[g].build[p2] = None \/ go'[g].build[p2] \in go'[g].fresh
                             \/ go'[g].build[p2] = programs'[go'[g].base][p2]
    <3> SUFFICES ASSUME NEW p2 \in Projects, p2 # p, go[g].build[p2] # None
                 PROVE  \/ go'[g].build[p2] \in go'[g].fresh
                        \/ go'[g].build[p2] = programs'[go'[g].base][p2]
      BY <1>5
    <3>1. go[g].build[p2] # old
      BY <1>0 DEF IInv, Clones, Apart
    <3> QED
      BY <1>0, <1>4, <1>5, <3>1 DEF IInv, Clones, Clone, snapVars
  <2>5. ASSUME NEW k \in Goroutines, k # g
        PROVE  /\ Apart(go'[k].build)
               /\ \A x \in go'[k].fresh : \E p2 \in Projects : go'[k].build[p2] = x
               /\ \A p2 \in Projects : \/ go'[k].build[p2] = None \/ go'[k].build[p2] \in go'[k].fresh
                                       \/ go'[k].build[p2] = programs'[go'[k].base][p2]
    BY <1>0, <1>3, <2>5 DEF OnlyMoved, IInv, Clones, snapVars
  <2> QED
    BY <2>1, <2>2, <2>3, <2>4, <2>5 DEF Clones, Apart
<1>9. FreshAlone'
  <2>1. \A k \in Goroutines : go'[k].fresh \subseteq go[k].fresh \cup {q}
    BY <1>3, <1>5 DEF OnlyMoved
  <2>2. ASSUME NEW k \in Goroutines, NEW x \in go'[k].fresh
        PROVE  x \notin orphans'
    <3>1. CASE x = q
      BY <1>a, <1>b, <1>c, <3>1
    <3>2. CASE x # q
      <4>1. x \in go[k].fresh /\ x \notin orphans
        BY <2>1, <3>2 DEF IInv, FreshAlone
      <4>2. x = old => x \notin go[g].fresh
        <5>1. x = old /\ x \in go[g].fresh => k = g
          BY <4>1 DEF IInv, FreshAlone
        <5> QED
          BY <1>5, <2>2, <3>2, <5>1
      <4> QED
        BY <1>a, <4>1, <4>2
    <3> QED
      BY <3>1, <3>2
  <2>3. ASSUME NEW x \in orphans'
        PROVE  counter[x] = 0 /\ \A k \in Goroutines, p2 \in Projects : go'[k].build[p2] # x
    <3>1. CASE x \in orphans
      BY <1>3, <1>5, <1>b, <3>1 DEF OnlyMoved, IInv, FreshAlone
    <3>2. CASE x = old /\ old \in go[g].fresh
      <4>1. counter[old] = 0 /\ \A k \in Goroutines, p2 \in Projects :
               go[k].build[p2] = old => k = g /\ p2 = p
        BY <3>2, OldIsAlone
      <4> QED
        BY <1>3, <1>5, <1>c, <3>2, <4>1 DEF OnlyMoved
    <3> QED
      BY <1>a, <2>3, <3>1, <3>2
  <2>4. ASSUME NEW k \in Goroutines, NEW x \in go'[k].fresh
        PROVE  counter[x] = 0 /\ \A k2 \in Goroutines : x \in go'[k2].fresh => k2 = k
    <3>1. CASE x = q
      <4>1. k = g /\ \A k2 \in Goroutines : x \in go'[k2].fresh => k2 = g
        BY <1>3, <1>b, <2>4, <3>1 DEF OnlyMoved
      <4> QED
        BY <1>b, <3>1, <4>1
    <3>2. CASE x # q
      <4>1. x \in go[k].fresh /\ \A k2 \in Goroutines : x \in go'[k2].fresh => x \in go[k2].fresh
        BY <2>1, <2>4, <3>2
      <4> QED
        BY <4>1 DEF IInv, FreshAlone
    <3> QED
      BY <3>1, <3>2
  <2> QED
    BY <1>0, <2>2, <2>3, <2>4 DEF FreshAlone
<1>10. FilesTracked'
  <2>1. \A x \in Programs : Live(x)' <=> Live(x) \/ x = q
    BY <1>0, <1>3, <1>5, <1>a DEF OnlyMoved, Live
  <2>2. \A x \in Programs : files'[x] = IF x = q THEN fs ELSE files[x]
    BY <1>0, <1>a DEF TypeOK
  <2>3. \A f \in Files : q \notin Containing(f)
    BY <1>b DEF Containing
  <2>4. \A f \in Files : Containing(f)' = IF f \in fs THEN Containing(f) \cup {q} ELSE Containing(f)
    BY <1>b, <2>1, <2>2 DEF Containing
  <2>5. ASSUME NEW f \in Files
        PROVE  parseRefs'[f] = Cardinality(Containing(f)')
    <3>1. CASE f \in fs
      <4>1. Cardinality(Containing(f) \cup {q}) = Cardinality(Containing(f)) + 1
        BY <1>f, <2>3, FS_AddElement
      <4> QED
        BY <1>a, <1>f, <2>4, <3>1, <4>1
    <3>2. CASE f \notin fs
      BY <1>a, <1>f, <2>4, <3>2
    <3> QED
      BY <3>1, <3>2
  <2> QED
    BY <2>5 DEF FilesTracked, Containing, Live
<1> QED
  BY <1>0, <1>3, <1>4, <1>7, <1>8, <1>9, <1>10, <1>d, CloneStep DEF snapVars

LEMMA FinishCloneStep ==
  ASSUME IInv, NEW g \in Goroutines, FinishClone(g)
  PROVE  IInv'
<1>a. PICK s \in FreeSnapshots, failed \in BOOLEAN :
        /\ failed => go[g].op = "api"
        /\ programs' = [programs EXCEPT ![s] = go[g].build]
        /\ refCount' = [refCount EXCEPT ![s] = 1]
        /\ apiError' = IF failed THEN apiError \cup {s} ELSE apiError \ {s}
        /\ counter' = RefPrograms(go[g].build, go[g].fresh)
        /\ go' = [go EXCEPT ![g].pc = AfterClone[go[g].op], ![g].new = s,
                            ![g].build = NoPrograms, ![g].builds = 0, ![g].fresh = {}]
  BY DEF FinishClone
<1> DEFINE pc2 == AfterClone[go[g].op]
           build == go[g].build
           r == [go[g] EXCEPT !.pc = pc2, !.new = s,
                   !.build = NoPrograms, !.builds = 0, !.fresh = {}]
<1>0. /\ TypeOK /\ Shape(go[g]) /\ go[g] \in GoState /\ go[g].pc = "cloning"
      /\ go[g].disposing = None /\ go[g].base \in Snapshots
      /\ go[g].op \in Updates \cup {"prepare", "warm"}
      /\ build \in [Projects -> Programs \cup {None}] /\ go[g].fresh \subseteq Programs
      /\ UNCHANGED <<current, files, discarded, parseRefs, lockVars, closing, orphans, panicked>>
  BY GoFields DEF FinishClone, Ready, IInv, Shapes, Shape
<1>b. /\ s \in Snapshots /\ refCount[s] = 0 /\ s # current /\ s # None
      /\ \A k \in Goroutines : go[k].base # s /\ go[k].new # s /\ go[k].disposing # s
  BY ObjectsAssumption DEF FreeSnapshots
<1>c. /\ go[g].op \in Updates => pc2 = "install"
      /\ go[g].op = "prepare" => pc2 = "handoff"
      /\ go[g].op = "warm" => pc2 = "warmed"
      /\ pc2 \in {"install", "handoff", "warmed"}
  BY <1>0 DEF AfterClone, Updates
<1> HIDE DEF pc2
<1>1. /\ r \in GoState /\ r.pc = pc2 /\ r.op = go[g].op /\ r.base = go[g].base
      /\ r.new = s /\ r.disposing = None
      /\ r.build = NoPrograms /\ r.fresh = {}
  <2>1. 0 \in 0 .. MaxBuilds /\ NoPrograms \in [Projects -> Programs \cup {None}]
    BY BoundAssumption DEF NoPrograms
  <2>2. pc2 \in PCs
    BY <1>c DEF PCs
  <2>3. s \in Snapshots \cup {None} /\ {} \in SUBSET Programs
    BY <1>b
  <2> QED
    BY <1>0, <2>1, <2>2, <2>3 DEF GoState
<1>2. go' = [go EXCEPT ![g] = r]
  BY <1>0, <1>a DEF TypeOK, pc2
<1> HIDE DEF r
<1>3. go' \in [Goroutines -> GoState] /\ OnlyMoved(go, go', g) /\ go'[g] = r
  BY <1>0, <1>1, <1>2, Moves
<1>4. /\ \A x \in Snapshots : refCount'[x] = IF x = s THEN 1 ELSE refCount[x]
      /\ \A x \in Snapshots : programs'[x] = IF x = s THEN build ELSE programs[x]
      /\ \A x \in Snapshots : x # s => (x \in apiError' <=> x \in apiError)
      /\ s \in apiError' => go[g].op = "api"
  BY <1>0, <1>a DEF TypeOK
<1> DEFINE Built(q) == \E p \in Projects : build[p] = q
<1>5. /\ \A q \in Programs : /\ counter'[q] = counter[q] + (IF Built(q) THEN 1 ELSE 0)
                             /\ counter[q] \in Nat /\ counter'[q] \in Nat
      /\ counter' \in [Programs -> Nat]
  <2>1. counter' = [q \in Programs |-> counter[q] + IF Built(q) THEN 1 ELSE 0]
    BY <1>a DEF RefPrograms
  <2>2. \A q \in Programs : counter[q] \in Nat
    BY <1>0 DEF TypeOK
  <2>3. \A q \in Programs : (IF Built(q) THEN 1 ELSE 0) \in Nat
    OBVIOUS
  <2> HIDE DEF Built
  <2> QED
    BY <2>1, <2>2, <2>3
<1>6. \A q \in Programs : Built(q) => q \notin orphans /\ Live(q)
                                      /\ (q \in go[g].fresh \/ counter[q] > 0)
  BY BuildLive, ObjectsAssumption
<1>7. TypeOK'
  <2>1. refCount' \in [Snapshots -> Int] /\ apiError' \in SUBSET Snapshots
    BY <1>0, <1>a, <1>b DEF TypeOK
  <2>2. programs' \in [Snapshots -> [Projects -> Programs \cup {None}]]
    BY <1>0, <1>a, <1>b DEF TypeOK
  <2> QED
    BY <1>0, <1>3, <1>5, <2>1, <2>2 DEF TypeOK, lockVars
<1>8. Shapes'
  <2>1. Shape(r)
    BY <1>0, <1>1, <1>b, <1>c DEF Shape
  <2> QED
    BY <1>3, <2>1 DEF IInv, Shapes, OnlyMoved
<1>9. Locks'
  BY <1>0, <1>1, <1>3, <1>c DEF IInv, Locks, Updating, OnlyMoved, lockVars, Updates
<1>10. Closing'
  BY <1>0, <1>1, <1>3, <1>c DEF IInv, Closing, OnlyMoved, Goroutines
<1>11. Unfailed'
  <2>1. current \notin apiError'
    BY <1>0, <1>4, <1>b, ObjectsAssumption, <1>7 DEF IInv, Unfailed, TypeOK
  <2>2. \A k \in Goroutines : /\ go[k].base \in Snapshots \cup {None} /\ go[k].base # s
                              /\ go[k].new \in Snapshots \cup {None} /\ go[k].new # s
    BY <1>0, <1>b, GoFields
  <2>3. None \notin apiError'
    BY <1>7, ObjectsAssumption DEF TypeOK
  <2>4. \A k \in Goroutines : /\ go[k].base \notin apiError => go[k].base \notin apiError'
                              /\ go[k].new \notin apiError => go[k].new \notin apiError'
    BY <1>4, <2>2, <2>3
  <2>5. ASSUME NEW k \in Goroutines, k # g
        PROVE  /\ Bases(go'[k]) => go'[k].base \notin apiError'
               /\ go'[k].pc \in {"unlock", "enqueue", "handoff", "prepared", "warmed", "start", "adopt"}
                    => go'[k].new \notin apiError'
               /\ go'[k].pc = "install" /\ go'[k].op # "api" => go'[k].new \notin apiError'
    BY <1>3, <2>4, <2>5 DEF IInv, Unfailed, OnlyMoved
  <2>6. Bases(r) => Bases(go[g])
    BY <1>1, <1>c DEF Bases
  <2>7. /\ Bases(r) => r.base \notin apiError'
        /\ r.pc \in {"unlock", "enqueue", "handoff", "prepared", "warmed", "start", "adopt"}
             => r.new \notin apiError'
        /\ r.pc = "install" /\ r.op # "api" => r.new \notin apiError'
    BY <1>0, <1>1, <1>4, <1>c, <2>4, <2>6 DEF IInv, Unfailed, Updates
  <2> QED
    BY <1>0, <1>3, <2>1, <2>5, <2>7 DEF Unfailed
<1>12. Clones'
  <2>1. \A x \in Snapshots : Apart(programs'[x])
    <3>1. Apart(build) /\ \A x \in Snapshots : Apart(programs[x])
      BY DEF IInv, Clones
    <3> QED
      BY <1>4, <3>1
  <2>2. \A p \in Projects : NoPrograms[p] = None
    BY DEF NoPrograms
  <2>3. Apart(NoPrograms)
    BY <2>2 DEF Apart
  <2>4. ASSUME NEW k \in Goroutines, k # g
        PROVE  /\ Apart(go'[k].build)
               /\ \A q \in go'[k].fresh : \E p \in Projects : go'[k].build[p] = q
               /\ \A p \in Projects : \/ go'[k].build[p] = None \/ go'[k].build[p] \in go'[k].fresh
                                      \/ go'[k].build[p] = programs'[go'[k].base][p]
    <3>1. go'[k] = go[k]
      BY <1>3, <2>4 DEF OnlyMoved
    <3>2. CASE go[k].base \in Snapshots
      <4>1. programs'[go[k].base] = programs[go[k].base]
        BY <1>4, <1>b, <3>2
      <4> QED
        BY <3>1, <4>1 DEF IInv, Clones
    <3>3. CASE go[k].base \notin Snapshots
      <4>1. go[k].build = NoPrograms
        BY <3>3 DEF IInv, Shapes, Shape
      <4> QED
        BY <2>2, <3>1, <4>1 DEF IInv, Clones
    <3> QED
      BY <3>2, <3>3
  <2> QED
    BY <1>1, <1>3, <2>1, <2>2, <2>3, <2>4 DEF Clones, Apart
<1>13. FreshAlone'
  <2>1. ASSUME NEW k \in Goroutines, NEW q \in go'[k].fresh
        PROVE  /\ counter'[q] = 0 /\ q \notin orphans
               /\ \A k2 \in Goroutines : q \in go'[k2].fresh => k2 = k
    <3>1. k # g /\ q \in go[k].fresh /\ q \in Programs
      BY <1>1, <1>3, <2>1, GoFields, <1>0 DEF OnlyMoved
    <3>2. /\ counter[q] = 0 /\ q \notin orphans
          /\ \A k2 \in Goroutines : q \in go[k2].fresh => k2 = k
      BY <3>1 DEF IInv, FreshAlone
    <3>3. ~Built(q)
      BY <1>6, <3>1, <3>2
    <3>4. \A k2 \in Goroutines : go'[k2].fresh \subseteq go[k2].fresh
      BY <1>1, <1>3 DEF OnlyMoved
    <3> QED
      BY <1>5, <3>1, <3>2, <3>3, <3>4
  <2>2. ASSUME NEW q \in orphans
        PROVE  counter'[q] = 0 /\ \A k \in Goroutines, p \in Projects : go'[k].build[p] # q
    <3>1. q \in Programs /\ q # None
      BY <1>0, ObjectsAssumption DEF TypeOK
    <3>2. counter[q] = 0 /\ \A k \in Goroutines, p \in Projects : go[k].build[p] # q
      BY DEF IInv, FreshAlone
    <3>3. \A p \in Projects : NoPrograms[p] # q
      BY <3>1 DEF NoPrograms
    <3>4. ~Built(q)
      BY <3>2
    <3> QED
      BY <1>1, <1>3, <1>5, <3>1, <3>2, <3>3, <3>4 DEF OnlyMoved
  <2> QED
    BY <1>0, <2>1, <2>2 DEF FreshAlone
<1>14. Disposals'
  <2>1. \A k \in Goroutines : /\ go'[k].disposing = go[k].disposing
                              /\ go[k].disposing # None => go'[k].todo = go[k].todo
    BY <1>0, <1>1, <1>3 DEF OnlyMoved
  <2>2. \A k \in Goroutines : go[k].disposing # None =>
           /\ go[k].disposing \in Snapshots
           /\ refCount'[go[k].disposing] = refCount[go[k].disposing]
           /\ programs'[go[k].disposing] = programs[go[k].disposing]
    BY <1>0, <1>4, <1>b, GoFields
  <2> QED
    BY <2>1, <2>2 DEF IInv, Disposals
<1>15. \A x \in Snapshots, p \in Projects : Holds(x, p)' <=> Holds(x, p) \/ x = s
  <2>1. \A k \in Goroutines : /\ go'[k].disposing = go[k].disposing
                              /\ go[k].disposing # None => go'[k].todo = go[k].todo
    BY <1>0, <1>1, <1>3 DEF OnlyMoved
  <2> QED
    BY <1>4, <2>1, ObjectsAssumption DEF Holds
<1>16. ProgramsTracked'
  <2> SUFFICES ASSUME NEW q \in Programs
               PROVE  counter'[q] = Cardinality(Holders(q)')
    BY DEF ProgramsTracked, Holders
  <2>1. counter[q] = Cardinality(Holders(q)) /\ IsFiniteSet(Holders(q))
    BY HoldersFinite DEF IInv, Counts, ProgramsTracked, Holders
  <2>2. \A p \in Projects : <<s, p>> \notin Holders(q)
    BY <1>b DEF Holders, Holds
  <2>3. \A x \in Snapshots, p \in Projects :
           <<x, p>> \in Holders(q)' <=> <<x, p>> \in Holders(q) \/ (x = s /\ build[p] = q)
    BY <1>4, <1>15, <2>2 DEF Holders
  <2>4. Holders(q)' \subseteq Snapshots \X Projects /\ Holders(q) \subseteq Snapshots \X Projects
    BY DEF Holders
  <2>5. CASE Built(q)
    <3>1. PICK p \in Projects : build[p] = q
      BY <2>5
    <3>2. \A p2 \in Projects : build[p2] = q => p2 = p
      BY <3>1, ObjectsAssumption DEF IInv, Clones, Apart
    <3>3. Holders(q)' = Holders(q) \cup {<<s, p>>}
      BY <1>b, <2>3, <2>4, <3>1, <3>2
    <3>4. Cardinality(Holders(q)') = Cardinality(Holders(q)) + 1
      BY <2>1, <2>2, <3>3, FS_AddElement
    <3> QED
      BY <1>5, <2>1, <2>5, <3>4
  <2>6. CASE ~Built(q)
    <3>1. Holders(q)' = Holders(q)
      BY <2>3, <2>4, <2>6
    <3> QED
      BY <1>5, <2>1, <2>6, <3>1
  <2> QED
    BY <2>5, <2>6
<1>17. FilesTracked'
  <2>1. \A k \in Goroutines : go'[k].fresh = IF k = g THEN {} ELSE go[k].fresh
    BY <1>1, <1>3 DEF OnlyMoved
  <2>2. \A q \in go[g].fresh : Built(q)
    BY DEF IInv, Clones
  <2>3. ASSUME NEW q \in Programs
        PROVE  Live(q)' <=> Live(q)
    <3>1. CASE Built(q)
      BY <1>5, <1>6, <3>1 DEF Live
    <3>2. CASE ~Built(q)
      BY <1>0, <1>5, <2>1, <2>2, <3>2 DEF Live
    <3> QED
      BY <3>1, <3>2
  <2>4. \A f \in Files : Containing(f)' = Containing(f)
    BY <1>0, <2>3 DEF Containing
  <2>5. \A f \in Files : parseRefs[f] = Cardinality(Containing(f))
    BY DEF IInv, Counts, FilesTracked, Containing, Live
  <2>6. \A f \in Files : parseRefs'[f] = Cardinality(Containing(f)')
    BY <1>0, <2>4, <2>5
  <2> QED
    BY <2>6 DEF FilesTracked, Containing, Live
<1>18. OwnersCounted'
  <2> SUFFICES ASSUME NEW x \in Snapshots
               PROVE  /\ refCount'[x] >= Owners(x)'
                      /\ closing' = "open" => refCount'[x] = Owners(x)'
    BY DEF OwnersCounted
  <2> DEFINE d == IF x = s THEN 1 ELSE 0
  <2>1. Weight(r, x) = Weight(go[g], x) + d
    <3>1. BaseWeight(r, x) = BaseWeight(go[g], x)
      BY <1>0, <1>1, <1>c DEF BaseWeight, Bases, Updates
    <3>2. NewWeight(r, x) = d /\ NewWeight(go[g], x) = 0
      BY <1>0, <1>1, <1>c DEF NewWeight, Owns
    <3>3. BaseWeight(go[g], x) \in Nat /\ d \in Nat
      BY DEF BaseWeight
    <3> QED
      BY <3>1, <3>2, <3>3 DEF Weight
  <2>2. Count(go', x) = Count(go, x) + Weight(go'[g], x) - Weight(go[g], x)
    BY <1>3, OneMoved
  <2>3. Count(go', x) = Count(go, x) + d /\ d \in Int
    BY <1>3, <2>1, <2>2, CountType, WeightType
  <2>4. refCount[x] \in Int /\ refCount'[x] \in Int /\ refCount'[x] = refCount[x] + d
    BY <1>0, <1>4, <1>7, <1>b DEF TypeOK
  <2>5. Balanced(x, d)
    BY <1>0, <2>4 DEF Balanced, SessionHas
  <2> QED
    BY <2>3, <2>4, <2>5, BalancedOwners
<1> QED
  BY <1>0, <1>7, <1>8, <1>9, <1>10, <1>11, <1>12, <1>13, <1>14, <1>16, <1>17, <1>18
     DEF IInv, Counts, NoPanic

-----------------------------------------------------------------------------
(* A step of a disposal.                                                        *)

LEMMA DisposeProjectStep ==
  ASSUME IInv, NEW g \in Goroutines, NEW p \in Projects, DisposeProject(g, p)
  PROVE  IInv'
<1> DEFINE s == go[g].disposing
           q == programs[s][p]
           left == go[g].todo \ {p}
           r == [go[g] EXCEPT !.todo = left, !.disposing = IF left = {} THEN None ELSE @]
<1>0. /\ TypeOK /\ Shape(go[g]) /\ go[g] \in GoState
      /\ s \in Snapshots /\ s # None /\ p \in go[g].todo /\ go[g].todo \subseteq Projects
      /\ counter' = [counter EXCEPT ![q] = IF @ = 0 THEN 0 ELSE @ - 1]
      /\ UNCHANGED <<current, refCount, snapVars, files, lockVars, closing, orphans, panicked>>
  BY GoFields DEF DisposeProject, IInv, Shapes
<1>a. IF LastHolder(q) THEN discarded' = discarded \cup {q} /\ parseRefs' = ReleaseFiles(q)
                       ELSE UNCHANGED <<discarded, parseRefs>>
  BY DEF DisposeProject
<1>b. /\ refCount[s] <= 0 /\ refCount[s] \in Int
      /\ \A p2 \in go[g].todo : programs[s][p2] # None
      /\ \A k \in Goroutines : go[k].disposing = s => k = g
  BY <1>0 DEF IInv, Disposals, TypeOK
<1>c. q \in Programs /\ counter[q] > 0
  <2>1. Holds(s, p)
    BY <1>0 DEF Holds
  <2> QED
    BY <1>0, <1>b, <2>1, ProgramHeld DEF IInv, Counts
<1>1. /\ r \in GoState /\ r.pc = go[g].pc /\ r.op = go[g].op /\ r.base = go[g].base
      /\ r.new = go[g].new /\ r.build = go[g].build /\ r.fresh = go[g].fresh
      /\ r.disposing = (IF left = {} THEN None ELSE s) /\ r.todo = left
  BY <1>0 DEF GoState
<1>2. go' = [go EXCEPT ![g] = r]
  <2>1. go' = [go EXCEPT ![g].todo = left, ![g].disposing = IF left = {} THEN None ELSE @]
    BY DEF DisposeProject
  <2> QED
    BY <1>0, <2>1 DEF TypeOK
<1> HIDE DEF r
<1>3. go' \in [Goroutines -> GoState] /\ OnlyMoved(go, go', g) /\ go'[g] = r
  BY <1>0, <1>1, <1>2, Moves
<1>4. \A k \in Goroutines : /\ go'[k].pc = go[k].pc /\ go'[k].op = go[k].op
                            /\ go'[k].base = go[k].base /\ go'[k].new = go[k].new
                            /\ go'[k].build = go[k].build /\ go'[k].fresh = go[k].fresh
  BY <1>1, <1>3 DEF OnlyMoved
<1>5. /\ \A x \in Programs : counter[x] \in Nat
      /\ \A x \in Programs : counter'[x] = IF x = q THEN counter[x] - 1 ELSE counter[x]
      /\ counter' \in [Programs -> Nat]
  BY <1>0, <1>c DEF TypeOK
<1>6. \A f \in Files : /\ parseRefs[f] \in Nat /\ IsFiniteSet(Containing(f))
                       /\ parseRefs[f] = Cardinality(Containing(f))
  <2>1. \A f \in Files : Containing(f) \in SUBSET Programs
    BY DEF Containing
  <2>2. \A f \in Files : IsFiniteSet(Containing(f))
    BY <2>1, ObjectsAssumption, FS_Subset
  <2>3. \A f \in Files : parseRefs[f] = Cardinality(Containing(f))
    BY DEF IInv, Counts, FilesTracked, Containing, Live
  <2> QED
    BY <1>0, <2>2, <2>3 DEF TypeOK
<1>7. TypeOK'
  <2>1. discarded' \in SUBSET Programs
    BY <1>0, <1>a, <1>c DEF TypeOK
  <2>2. parseRefs' \in [Files -> Nat]
    <3>1. CASE LastHolder(q)
      <4>1. parseRefs' = [f \in Files |-> IF f \in files[q] /\ parseRefs[f] > 0
                                          THEN parseRefs[f] - 1 ELSE parseRefs[f]]
        BY <1>a, <3>1 DEF ReleaseFiles
      <4>2. \A f \in Files : (IF f \in files[q] /\ parseRefs[f] > 0
                              THEN parseRefs[f] - 1 ELSE parseRefs[f]) \in Nat
        BY <1>6
      <4> QED
        BY <4>1, <4>2
    <3>2. CASE ~LastHolder(q)
      BY <1>0, <1>a, <3>2 DEF TypeOK
    <3> QED
      BY <3>1, <3>2
  <2> QED
    BY <1>0, <1>3, <1>5, <2>1, <2>2 DEF TypeOK, snapVars, lockVars
<1>8. Shapes'
  BY <1>4 DEF IInv, Shapes, Shape
<1>9. Locks'
  BY <1>0, <1>4 DEF IInv, Locks, Updating, lockVars
<1>10. Closing'
  <2>1. closing # "closed" => go'[Closer].disposing = None
    <3>1. closing # "closed" => go[Closer].disposing = None
      BY DEF IInv, Closing
    <3> QED
      BY <1>0, <1>3, <3>1, Finite DEF OnlyMoved
  <2> QED
    BY <1>0, <1>4, <2>1, Finite DEF IInv, Closing, Goroutines
<1>11. Unfailed'
  BY <1>0, <1>4 DEF IInv, Unfailed, Bases, snapVars
<1>12. Clones'
  BY <1>0, <1>4 DEF IInv, Clones, Apart, snapVars
<1>13. FreshAlone'
  <2>1. q \notin orphans /\ \A k \in Goroutines : q \notin go[k].fresh
    BY <1>c DEF IInv, FreshAlone
  <2>2. \A k \in Goroutines : go[k].fresh \subseteq Programs
    BY <1>0, GoFields
  <2>3. orphans \subseteq Programs
    BY <1>0 DEF TypeOK
  <2>4. \A k \in Goroutines : \A x \in go[k].fresh : counter'[x] = 0
    BY <1>5, <2>1, <2>2 DEF IInv, FreshAlone
  <2>5. \A x \in orphans : counter'[x] = 0
    BY <1>5, <2>1, <2>3 DEF IInv, FreshAlone
  <2> QED
    BY <1>0, <1>4, <2>4, <2>5 DEF IInv, FreshAlone
<1>14. Disposals'
  <2> SUFFICES ASSUME NEW k \in Goroutines, go'[k].disposing # None
               PROVE  /\ refCount[go'[k].disposing] <= 0 /\ go'[k].todo # {}
                      /\ \A p2 \in go'[k].todo : programs[go'[k].disposing][p2] # None
                      /\ \A k2 \in Goroutines : go'[k2].disposing = go'[k].disposing => k2 = k
    BY <1>0 DEF Disposals, snapVars
  <2>1. \A k2 \in Goroutines : go'[k2].disposing \in {None, go[k2].disposing}
    BY <1>1, <1>3 DEF OnlyMoved
  <2>2. go'[k].disposing = go[k].disposing
    BY <2>1
  <2>3. go'[k].todo # {} /\ go'[k].todo \subseteq go[k].todo
    <3>1. CASE k = g
      BY <1>1, <1>3, <3>1
    <3>2. CASE k # g
      <4>1. go'[k] = go[k]
        BY <1>3, <3>2 DEF OnlyMoved
      <4> QED
        BY <4>1 DEF IInv, Disposals
    <3> QED
      BY <3>1, <3>2
  <2> QED
    BY <2>1, <2>2, <2>3 DEF IInv, Disposals
<1>15. \A x \in Snapshots, p2 \in Projects :
          Holds(x, p2)' <=> Holds(x, p2) /\ ~(x = s /\ p2 = p)
  <2> SUFFICES ASSUME NEW x \in Snapshots, NEW p2 \in Projects
               PROVE  Holds(x, p2)' <=> Holds(x, p2) /\ ~(x = s /\ p2 = p)
    OBVIOUS
  <2>1. \A k \in Goroutines : k # g => go'[k] = go[k]
    BY <1>3 DEF OnlyMoved
  <2>2. CASE x = s
    <3>1. Holds(x, p2) <=> p2 \in go[g].todo
      BY <1>0, <1>b, <2>2 DEF Holds
    <3>2. \A k \in Goroutines : go'[k].disposing = x => k = g
      BY <1>b, <2>1, <2>2
    <3>3. Holds(x, p2)' <=> go'[g].disposing = x /\ p2 \in go'[g].todo
      <4>1. ~(refCount'[x] > 0)
        BY <1>0, <1>b, <2>2
      <4> QED
        BY <3>2, <4>1 DEF Holds
    <3>4. (go'[g].disposing = x /\ p2 \in go'[g].todo) <=> p2 \in left
      BY <1>0, <1>1, <1>3, <2>2
    <3> QED
      BY <2>2, <3>1, <3>3, <3>4
  <2>3. CASE x # s
    <3>1. go'[g].disposing # x /\ go[g].disposing # x
      BY <1>1, <1>3, <2>3, ObjectsAssumption
    <3> QED
      BY <1>0, <2>1, <2>3, <3>1 DEF Holds
  <2> QED
    BY <2>2, <2>3
<1>16. ProgramsTracked'
  <2> SUFFICES ASSUME NEW x \in Programs
               PROVE  counter'[x] = Cardinality(Holders(x)')
    BY DEF ProgramsTracked, Holders
  <2>1. counter[x] = Cardinality(Holders(x)) /\ IsFiniteSet(Holders(x))
    BY HoldersFinite DEF IInv, Counts, ProgramsTracked, Holders
  <2>2. Holders(x)' \subseteq Snapshots \X Projects /\ Holders(x) \subseteq Snapshots \X Projects
    BY DEF Holders
  <2>3. \A y \in Snapshots, p2 \in Projects :
           <<y, p2>> \in Holders(x)' <=> <<y, p2>> \in Holders(x) /\ <<y, p2>> # <<s, p>>
    BY <1>0, <1>15 DEF Holders, snapVars
  <2>4. Holders(x)' = Holders(x) \ {<<s, p>>}
    BY <2>2, <2>3
  <2>5. CASE x = q
    <3>1. <<s, p>> \in Holders(x)
      BY <1>0, <2>5 DEF Holders, Holds
    <3>2. Cardinality(Holders(x)') = Cardinality(Holders(x)) - 1
      BY <2>1, <2>4, <3>1, FS_RemoveElement
    <3> QED
      BY <1>5, <2>1, <2>5, <3>2
  <2>6. CASE x # q
    <3>1. <<s, p>> \notin Holders(x)
      BY <2>6 DEF Holders
    <3>2. Holders(x)' = Holders(x)
      BY <2>4, <3>1
    <3> QED
      BY <1>5, <2>1, <2>6, <3>2
  <2> QED
    BY <2>5, <2>6
<1>17. FilesTracked'
  <2>1. q \notin orphans /\ \A k \in Goroutines : q \notin go[k].fresh
    BY <1>c DEF IInv, FreshAlone
  <2>2. CASE LastHolder(q)
    <3>1. counter[q] = 1
      BY <2>2 DEF LastHolder
    <3>2. \A x \in Programs : Live(x)' <=> Live(x) /\ x # q
      <4>1. ASSUME NEW x \in Programs
            PROVE  Live(x)' <=> Live(x) /\ x # q
        <5>1. CASE x = q
          <6>1. counter'[q] = 0 /\ q \notin orphans' /\ \A k \in Goroutines : q \notin go'[k].fresh
            BY <1>0, <1>4, <1>5, <1>c, <2>1, <3>1
          <6> QED
            BY <5>1, <6>1 DEF Live
        <5>2. CASE x # q
          BY <1>0, <1>4, <1>5, <5>2 DEF Live
        <5> QED
          BY <5>1, <5>2
      <4> QED
        BY <4>1
    <3>3. \A f \in Files : Containing(f)' = Containing(f) \ {q}
      BY <1>0, <3>2 DEF Containing
    <3>4. \A f \in Files : q \in Containing(f) <=> f \in files[q]
      BY <1>c DEF Containing, Live
    <3>5. parseRefs' = ReleaseFiles(q)
      BY <1>a, <2>2
    <3>6. ASSUME NEW f \in Files
          PROVE  parseRefs'[f] = Cardinality(Containing(f)')
      <4>1. CASE f \in files[q]
        <5>1. Cardinality(Containing(f) \ {q}) = Cardinality(Containing(f)) - 1
          BY <1>6, <3>4, <4>1, FS_RemoveElement
        <5>2. Cardinality(Containing(f)) # 0
          BY <1>6, <3>4, <4>1, FS_EmptySet
        <5>3. parseRefs'[f] = parseRefs[f] - 1
          BY <1>6, <3>5, <4>1, <5>2 DEF ReleaseFiles
        <5> QED
          BY <1>6, <3>3, <5>1, <5>3
      <4>2. CASE f \notin files[q]
        <5>1. Containing(f)' = Containing(f)
          BY <3>3, <3>4, <4>2
        <5> QED
          BY <1>6, <3>5, <4>2, <5>1 DEF ReleaseFiles
      <4> QED
        BY <4>1, <4>2
    <3> QED
      BY <3>6 DEF FilesTracked, Containing, Live
  <2>3. CASE ~LastHolder(q)
    <3>1. counter'[q] > 0
      BY <1>5, <1>c, <2>3 DEF LastHolder
    <3>2. \A x \in Programs : Live(x)' <=> Live(x)
      BY <1>0, <1>4, <1>5, <1>c, <3>1 DEF Live
    <3>3. \A f \in Files : Containing(f)' = Containing(f)
      BY <1>0, <3>2 DEF Containing
    <3>4. \A f \in Files : parseRefs'[f] = Cardinality(Containing(f)')
      BY <1>6, <1>a, <2>3, <3>3
    <3> QED
      BY <3>4 DEF FilesTracked, Containing, Live
  <2> QED
    BY <2>2, <2>3
<1>18. OwnersCounted'
  <2> SUFFICES ASSUME NEW x \in Snapshots
               PROVE  /\ refCount'[x] >= Owners(x)'
                      /\ closing' = "open" => refCount'[x] = Owners(x)'
    BY DEF OwnersCounted
  <2>1. Weight(go'[g], x) = Weight(go[g], x) /\ Weight(go[g], x) \in Nat
    BY <1>4, WeightType DEF Weight, BaseWeight, NewWeight, Bases, Owns
  <2>2. Count(go', x) = Count(go, x) + Weight(go'[g], x) - Weight(go[g], x)
    BY <1>3, OneMoved
  <2>3. Count(go', x) = Count(go, x) + 0
    BY <2>1, <2>2, CountType
  <2>4. refCount[x] \in Int /\ refCount'[x] \in Int
    BY <1>0 DEF TypeOK
  <2>5. Balanced(x, 0)
    BY <1>0, <2>4 DEF Balanced, SessionHas
  <2> QED
    BY <2>3, <2>4, <2>5, BalancedOwners
<1> QED
  BY <1>0, <1>7, <1>8, <1>9, <1>10, <1>11, <1>12, <1>13, <1>14, <1>16, <1>17, <1>18
     DEF IInv, Counts, NoPanic

-----------------------------------------------------------------------------
(* Every step keeps the invariant.                                              *)

LEMMA InitIInv == Init => IInv
<1> SUFFICES ASSUME Init PROVE IInv
  OBVIOUS
<1>0. /\ current \in Snapshots /\ current # None
      /\ refCount = [s \in Snapshots |-> IF s = current THEN 1 ELSE 0]
      /\ programs = [s \in Snapshots |-> NoPrograms]
      /\ \A g \in Goroutines : go[g] = Idle
      /\ NoPrograms \in [Projects -> Programs \cup {None}] /\ \A p \in Projects : NoPrograms[p] = None
  BY ObjectsAssumption DEF Init, NoPrograms
<1>1. TypeOK
  <2>1. go \in [Goroutines -> GoState]
    BY IdleFields DEF Init
  <2>2. refCount \in [Snapshots -> Int] /\ programs \in [Snapshots -> [Projects -> Programs \cup {None}]]
    BY <1>0
  <2> QED
    BY <1>0, <2>1, <2>2 DEF Init, TypeOK
<1>2. Shapes
  BY <1>0, IdleFields DEF Shapes, Shape
<1>3. Locks
  BY <1>0, IdleFields DEF Locks, Updating
<1>4. Closing
  BY <1>0, IdleFields, Finite DEF Closing, Init
<1>5. Unfailed
  BY <1>0, IdleFields DEF Unfailed, Bases, Init
<1>6. Clones
  BY <1>0, IdleFields DEF Clones, Apart
<1>7. FreshAlone
  BY <1>0, IdleFields DEF FreshAlone, Init
<1>8. Disposals
  BY <1>0, IdleFields DEF Disposals
<1>9. OwnersCounted
  <2> SUFFICES ASSUME NEW s \in Snapshots PROVE refCount[s] = Owners(s) /\ refCount[s] \in Int
    BY DEF OwnersCounted
  <2>1. BaseHolders(go, s) = {} /\ NewOwners(go, s) = {}
    BY <1>0, IdleFields DEF BaseHolders, NewOwners, Bases, Owns
  <2>2. Count(go, s) = 0
    BY <2>1, FS_EmptySet DEF Count
  <2> QED
    BY <1>0, <2>2, OwnersAre
<1>10. ProgramsTracked
  <2>1. ASSUME NEW q \in Programs
        PROVE  Holders(q) = {}
    <3>1. \A s \in Snapshots, p \in Projects : programs[s][p] # q
      BY <1>0, ObjectsAssumption
    <3> QED
      BY <3>1 DEF Holders
  <2>2. \A q \in Programs : counter[q] = 0 /\ Cardinality(Holders(q)) = 0
    BY <2>1, FS_EmptySet DEF Init
  <2> QED
    BY <2>2 DEF ProgramsTracked, Holders
<1>11. FilesTracked
  <2>1. \A q \in Programs : ~Live(q)
    BY <1>0, IdleFields DEF Live, Init
  <2>2. \A f \in Files : Containing(f) = {}
    BY <2>1 DEF Containing
  <2>3. \A f \in Files : parseRefs[f] = 0 /\ Cardinality(Containing(f)) = 0
    BY <2>2, FS_EmptySet DEF Init
  <2> QED
    BY <2>3 DEF FilesTracked, Containing, Live
<1>12. NoPanic
  BY DEF Init, NoPanic
<1> QED
  BY <1>1, <1>2, <1>3, <1>4, <1>5, <1>6, <1>7, <1>8, <1>9, <1>10, <1>11, <1>12 DEF IInv, Counts

LEMMA StutterStep ==
  ASSUME IInv, UNCHANGED vars
  PROVE  IInv'
<1>1. OnlyMoved(go, go', Closer) /\ KeepsBuild(Closer) /\ CachesKept /\ Closer \in Goroutines
  BY Finite DEF vars, OnlyMoved, KeepsBuild, CachesKept
<1>2. Shapes' /\ Locks' /\ Closing' /\ Unfailed' /\ Disposals'
  <2>1. Shapes'
    BY DEF vars, IInv, Shapes
  <2>2. Locks'
    BY DEF vars, IInv, Locks, Updating
  <2>3. Closing'
    BY DEF vars, IInv, Closing
  <2>4. Unfailed'
    BY DEF vars, IInv, Unfailed
  <2>5. Disposals'
    BY DEF vars, IInv, Disposals
  <2> QED
    BY <2>1, <2>2, <2>3, <2>4, <2>5
<1>3. TypeOK'
  BY DEF vars, IInv, TypeOK
<1>4. HoldsSame
  BY DEF vars, HoldsSame, Holds
<1>5. ASSUME NEW s \in Snapshots
      PROVE  Balanced(s, Weight(go'[Closer], s) - Weight(go[Closer], s))
  <2>1. Weight(go'[Closer], s) = Weight(go[Closer], s) /\ Weight(go[Closer], s) \in Nat
    BY WeightType DEF vars
  <2>2. refCount[s] \in Int
    BY DEF IInv, TypeOK
  <2> QED
    BY <2>1, <2>2 DEF Balanced, SessionHas, vars
<1>6. Shape(go'[Closer])
  BY <1>1, <1>2 DEF Shapes
<1> QED
  BY <1>1, <1>2, <1>3, <1>4, <1>5, <1>6, OneStep DEF Places

LEMMA HandlerSteps ==
  ASSUME IInv, NEW h \in Handlers, HandlerStep(h)
  PROVE  IInv'
<1>1. CASE ReuseSnapshot(h)
  BY <1>1, ReuseNoRefStep, ReuseRefStep
<1>2. CASE EnqueueUpdateTask(h)
  <2>1. \/ go' = [go EXCEPT ![h] = Returned(h)]
        \/ \E t \in Tasks : /\ closing = "open" /\ Ready(t, "idle")
                            /\ go' = [go EXCEPT ![h] = Returned(h),
                                        ![t].pc = "start", ![t].op = "warm", ![t].new = go[h].new]
    BY <1>2 DEF EnqueueUpdateTask
  <2> QED
    BY <1>2, <2>1, EnqueueNothingStep, EnqueueTaskStep
<1>3. CASE RecoverHostChanges(h)
  <2>1. \/ updateMu' = updateMu /\ go' = [go EXCEPT ![h].pc = "host", ![h].op = "noref"]
        \/ updateMu' = None /\ go' = [go EXCEPT ![h] = Idle]
    BY <1>3 DEF RecoverHostChanges
  <2> QED
    BY <1>3, <2>1, RecoverByUpdateStep, RecoverNothingStep
<1> QED
  BY <1>1, <1>2, <1>3, BeginUpdateStep, RejectCloneStep, InstallCloneStep, UnlockSnapshotStep,
     ReleaseRejectedStep, ReleaseUnusedStep, HandOffCloneStep, RetainStep, ReleasePreparedStep,
     ReleaseSnapshotStep DEF HandlerStep

LEMMA TaskSteps ==
  ASSUME IInv, NEW t \in Tasks, TaskStep(t)
  PROVE  IInv'
<1>1. CASE RunWarm(t)
  BY <1>1, RunWarmStep, RunWarmTooLateStep
<1>2. CASE Warmed(t)
  <2>1. \/ go' = [go EXCEPT ![t].pc = "adopt"] /\ UNCHANGED <<refCount, panicked>>
        \/ Deref(t, go[t].new, [go EXCEPT ![t].pc = "warmEnd", ![t].new = None])
    BY <1>2 DEF Warmed
  <2> QED
    BY <1>2, <2>1, WarmedAdoptsStep, WarmedDropsStep
<1>3. CASE Adopt(t)
  BY <1>3, AdoptStep, AdoptTooLateStep
<1>4. CASE Adopted(t) \/ LostAdoption(t)
  <2>1. go[t].op \in {"adopt", "warm"}
    BY <1>4, Here DEF Adopted, LostAdoption, Ready, Shape
  <2> QED
    BY <1>4, <2>1, AdoptedStep, AdoptedWarmStep, LostAdoptionStep, LostWarmStep
<1> QED
  BY <1>1, <1>2, <1>3, <1>4, DropTaskStep, RunAdoptStep, WarmEndStep, EndPublishStep DEF TaskStep

LEMMA Always == Spec => []IInv
<1>1. ASSUME IInv, Next
      PROVE  IInv'
  <2>1. CASE Arrival
    BY <1>1, <2>1, PrepareStep, UpdateUnlockedStep, LockForUpdateStep, BeginPublishStep,
       BeginCloseStep DEF Arrival
  <2>2. CASE FinishClose
    BY <1>1, <2>2, FinishCloseStep
  <2>3. CASE \E h \in Handlers : HandlerStep(h)
    BY <1>1, <2>3, HandlerSteps
  <2>4. CASE \E t \in Tasks : TaskStep(t)
    BY <1>1, <2>4, TaskSteps
  <2>5. CASE \E g \in Goroutines : Build(g) \/ FinishClone(g) \/ Dispose(g)
    BY <1>1, <2>5, UpdateProgramStep, DeleteProjectStep, FinishCloneStep, DisposeProjectStep
       DEF Build, Dispose
  <2> QED
    BY <1>1, <2>1, <2>2, <2>3, <2>4, <2>5 DEF Next
<1>2. IInv /\ [Next]_vars => IInv'
  BY <1>1, StutterStep
<1> QED
  BY <1>2, InitIInv, PTL DEF Spec

-----------------------------------------------------------------------------
(* The theorems.                                                                *)

\* Every variable keeps its type; in particular no program's and no file's count falls
\* below zero, whatever order references are taken and given back in.
THEOREM TypeCorrect == Spec => []TypeOK
<1>1. IInv => TypeOK
  BY DEF IInv
<1> QED
  BY <1>1, Always, PTL

\* The panics of ref, Deref, Clone and RefCountCache.Ref are unreachable: no reference is
\* taken on a disposed snapshot, no failed snapshot is cloned, and CreateProgram never finds
\* a file of the program it replaces gone from the parse cache.
THEOREM NeverPanics == Spec => []NoPanic
<1>1. IInv => NoPanic
  BY DEF IInv
<1> QED
  BY <1>1, Always, PTL

\* However requests, background clones, adoptions, disposals and Session.Close interleave,
\* a snapshot's count is the number of its owners, programCounter's count of a program the
\* number of snapshots that hold it, and the parse cache's count of a file the number of
\* programs that contain it.
THEOREM CountsAreExact == Spec => []ReferencesExact
<1>1. IInv => ReferencesExact
  BY DEF IInv, Counts, ReferencesExact
<1> QED
  BY <1>1, Always, PTL

\* While a goroutine holds or owns a snapshot, or it is the session's, it is not disposed of,
\* and it still counts each of its programs, whose files the parse cache still counts.
HeldAlive ==
  \A s \in Snapshots :
    (\/ s = current
     \/ \E g \in Goroutines : (HoldsBase(g) /\ go[g].base = s) \/ (OwnsNew(g) /\ go[g].new = s))
      => /\ refCount[s] >= 1
         /\ \A p \in Projects : programs[s][p] # None =>
               /\ counter[programs[s][p]] >= 1
               /\ \A f \in files[programs[s][p]] : parseRefs[f] >= 1

\* What a goroutine has been handed (getSnapshot, a clone, a background reference) stays
\* usable until it gives it back: the snapshot is alive, and with it its programs' files.
THEOREM HeldStaysAlive == Spec => []HeldAlive
<1>1. ASSUME IInv
      PROVE  HeldAlive
  <2> SUFFICES ASSUME NEW s \in Snapshots,
                      \/ s = current
                      \/ \E g \in Goroutines : \/ HoldsBase(g) /\ go[g].base = s
                                               \/ OwnsNew(g) /\ go[g].new = s
               PROVE  /\ refCount[s] >= 1
                      /\ \A p \in Projects : programs[s][p] # None =>
                            /\ counter[programs[s][p]] >= 1
                            /\ \A f \in files[programs[s][p]] : parseRefs[f] >= 1
    BY DEF HeldAlive
  <2>1. refCount[s] >= 1 /\ refCount[s] \in Int
    BY <1>1, Alive DEF IInv, Counts, HoldsBase, OwnsNew, Bases, Owns
  <2>2. ASSUME NEW p \in Projects, programs[s][p] # None
        PROVE  /\ counter[programs[s][p]] >= 1
               /\ \A f \in files[programs[s][p]] : parseRefs[f] >= 1
    <3> DEFINE q == programs[s][p]
    <3>1. q \in Programs /\ counter[q] > 0
      <4>1. Holds(s, p)
        BY <2>1 DEF Holds
      <4> QED
        BY <1>1, <2>2, <4>1, ProgramHeld DEF IInv, Counts
    <3>2. counter[q] \in Nat /\ files[q] \subseteq Files
      BY <1>1, <3>1 DEF IInv, TypeOK
    <3>3. ASSUME NEW f \in files[q]
          PROVE  parseRefs[f] >= 1
      <4>1. q \in Containing(f) /\ f \in Files /\ parseRefs[f] \in Nat
        BY <1>1, <3>1, <3>2 DEF Containing, Live, IInv, TypeOK
      <4>2. Containing(f) \in SUBSET Programs
        BY DEF Containing
      <4>3. IsFiniteSet(Containing(f))
        BY <4>2, ObjectsAssumption, FS_Subset
      <4>4. Cardinality(Containing(f)) # 0
        BY <4>1, <4>3, FS_EmptySet
      <4>5. parseRefs[f] = Cardinality(Containing(f))
        BY <1>1, <4>1 DEF IInv, Counts, FilesTracked, Containing, Live
      <4> QED
        BY <4>1, <4>4, <4>5
    <3> QED
      BY <3>1, <3>2, <3>3
  <2> QED
    BY <2>1, <2>2
<1>2. IInv => HeldAlive
  BY <1>1
<1> QED
  BY <1>2, Always, PTL

\* updateSnapshot and adoptSnapshotChange: the session moves only to a clone of the snapshot
\* it is at, so that no update is ever lost to a clone of an older one.
THEOREM NoUpdateLost == Spec => NoLostUpdate
<1> DEFINE FromCurrent == current' # current /\ current' # None =>
                            \E g \in Goroutines : go[g].new = current' /\ go[g].base = current
<1>1. ASSUME IInv, Next
      PROVE  FromCurrent
  <2>1. CASE \E h \in Handlers : HandlerStep(h)
    <3>1. PICK h \in Handlers : HandlerStep(h)
      BY <2>1
    <3>2. CASE InstallClone(h)
      <4>1. go[h].pc = "install" /\ current' = go[h].new /\ h \in Goroutines
        BY <3>2 DEF InstallClone, Ready, Goroutines
      <4>2. go[h].base = current
        BY <1>1, <4>1 DEF IInv, Locks, Updating
      <4> QED
        BY <4>1, <4>2
    <3>3. CASE ~InstallClone(h)
      BY <3>1, <3>3 DEF HandlerStep, ReuseSnapshot, BeginUpdate, RejectClone, UnlockSnapshot,
         EnqueueUpdateTask, ReleaseRejected, RecoverHostChanges, ReleaseUnused, HandOffClone, Retain,
         ReleasePrepared, ReleaseSnapshot
    <3> QED
      BY <3>2, <3>3
  <2>2. CASE \E t \in Tasks : TaskStep(t)
    <3>1. PICK t \in Tasks : TaskStep(t)
      BY <2>2
    <3>2. CASE Adopt(t)
      BY <3>2 DEF Adopt, MovedOn, Goroutines
    <3>3. CASE ~Adopt(t)
      BY <3>1, <3>3 DEF TaskStep, DropTask, RunAdopt, RunWarm, Warmed, Adopted, LostAdoption,
         WarmEnd, EndPublish
    <3> QED
      BY <3>2, <3>3
  <2>3. CASE Arrival
    BY <2>3 DEF Arrival, Prepare, UpdateUnlocked, LockForUpdate, BeginPublish, BeginClose
  <2>4. CASE FinishClose
    BY <2>4 DEF FinishClose
  <2>5. CASE \E g \in Goroutines : Build(g) \/ FinishClone(g) \/ Dispose(g)
    <3>1. \A g \in Goroutines, p \in Projects :
             DeleteProject(g, p) \/ DisposeProject(g, p) => current' = current
      BY DEF DeleteProject, DisposeProject
    <3>3. ASSUME NEW g \in Goroutines, NEW p \in Projects, UpdateProgram(g, p)
          PROVE  current' = current
      BY <3>3 DEF UpdateProgram
    <3>2. \A g \in Goroutines : FinishClone(g) => current' = current
      BY DEF FinishClone
    <3> QED
      BY <2>5, <3>1, <3>2, <3>3 DEF Build, Dispose
  <2> QED
    BY <1>1, <2>1, <2>2, <2>3, <2>4, <2>5 DEF Next
<1>2. IInv /\ [Next]_vars => [FromCurrent]_current
  BY <1>1 DEF vars
<1> QED
  BY <1>2, Always, PTL DEF Spec, NoLostUpdate
=============================================================================
