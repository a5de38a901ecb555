-------------------------- MODULE ApiSessionsProofs --------------------------
(***************************************************************************)
(* However many clients are connected and whatever they ask for: what they *)
(* have in the server's snapshot is counted exactly, what is open stays    *)
(* loaded, and nobody touches what belongs to another.                     *)
(***************************************************************************)
EXTENDS ApiSessions, FiniteSetTheorems, WellFoundedInduction, TLAPS

-----------------------------------------------------------------------------
(* The invariant.                                                               *)

Updating == {"ready", "building", "adopted"}

\* A request belongs to a client that is still connected or whose connection is about to end;
\* an update holds its client's lock.
RequestOf(q, r) ==
  /\ q.pc # "idle" => q.client \in Clients /\ conn[q.client] \in {"open", "closing"}
  /\ q.pc \in Updating => lsMu[q.client] = r
  /\ q.pc \in Updating => q.base = None
  /\ q.pc # "done" => q.handle = None
RequestsOk == \A r \in Requests : RequestOf(req[r], r)

\* What an update asks for is what its client has not got or wants to give up.
Agrees(ops, opens, o) ==
  /\ "closeProject" \in ops => o.project
  /\ "openProject" \in ops => ~o.project \/ "closeProject" \in ops
  /\ opens.project <=> "openProject" \in ops \/ (o.project /\ "closeProject" \notin ops)
  /\ "closeFile" \in ops => o.file
  /\ "openFile" \in ops => ~o.file \/ "closeFile" \in ops
  /\ opens.file <=> "openFile" \in ops \/ (o.file /\ "closeFile" \notin ops)
AgreedOf(q) == Agrees(q.ask.ops, q.opens, own[q.client]) /\ q.ask.remove \subseteq own[q.client].progs
Agreed == \A r \in Requests : req[r].pc \in Updating => AgreedOf(req[r])

\* A snapshot has what is open in it, and those who have nothing open do not count in it.
Sound(s, o) ==
  /\ Needed(s) => s.loaded
  /\ IF o.project THEN s.count > 0 ELSE s.count < Cardinality(Clients)
  /\ IF o.file THEN s.files > 0 ELSE s.files < Cardinality(Clients)
SnapshotsSound ==
  /\ \A c \in Clients, h \in Handles : Sound(sd[c][h].snapshot, sd[c][h].opens)
  /\ \A r \in Requests : req[r].pc = "adopted" => Sound(req[r].snapshot, req[r].opens)

\* The server's own snapshot.
CanonSound == /\ Needed(canon) => canon.loaded
              /\ overlay => canon.overlay
              /\ canon.broken \subseteq canon.progs

\* A snapshot is referenced by everybody who uses it, also when its client has gone and holds
\* nothing any more; a handle is given out once.
Referenced(c, h) == (IF h \in held[c] THEN 1 ELSE 0) + Cardinality(Using(c, h)) + Cardinality(Answering(c, h))
Promised(c, h) == (IF h \in held[c] THEN 1 ELSE 0) + Cardinality(Answering(c, h))
ReferencesKept ==
  /\ \A c \in Clients, h \in Handles : sd[c][h].refCount >= Referenced(c, h)
  /\ \A c \in Clients, h \in Handles : Promised(c, h) <= 1
  /\ \A c \in Clients : conn[c] # "open" => held[c] = {}

\* There is a handle for every answer and an id for every program to create.
Unanswered == {r \in Requests : req[r].pc \notin {"idle", "done"}}
ToCreate == {r \in Requests : req[r].pc \in {"ready", "building"} /\ "create" \in req[r].ask.ops}
BaseOf(q) == IF q.base = None THEN Empty ELSE sd[q.client][q.base].snapshot
Room ==
  /\ Cardinality(Entries) + Cardinality(Unanswered) <= MaxHandles
  /\ Cardinality(canon.progs) + Cardinality(ToCreate) <= MaxId
  /\ \A r \in Requests : req[r].pc = "deriving" /\ "create" \in req[r].ask.ops
                           => Cardinality(BaseOf(req[r]).progs) < MaxId

IInv == /\ TypeOK /\ RequestsOk /\ Agreed /\ SnapshotsSound /\ CanonSound /\ OpensCounted /\ ProgramsOwned
        /\ ReferencesKept /\ HandlesExact /\ Room

-----------------------------------------------------------------------------
(* Arithmetic of small sets.                                                    *)

One(b) == IF b THEN 1 ELSE 0

LEMMA Constants ==
  /\ IsFiniteSet(Clients) /\ IsFiniteSet(Requests) /\ IsFiniteSet(Ids) /\ IsFiniteSet(Handles)
  /\ MaxId \in Nat /\ MaxHandles \in Nat /\ Cardinality(Clients) \in Nat
  /\ Cardinality(Ids) = MaxId /\ Cardinality(Handles) = MaxHandles
  /\ None \notin Clients /\ None \notin Requests /\ None \notin Handles
<1>1. MaxId \in Nat /\ MaxHandles \in Nat
  BY BoundsAssumption
<1>2. IsFiniteSet(Ids) /\ Cardinality(Ids) = MaxId
  BY <1>1, FS_Interval DEF Ids
<1>3. IsFiniteSet(Handles) /\ Cardinality(Handles) = MaxHandles
  BY <1>1, FS_Interval DEF Handles
<1>4. Cardinality(Clients) \in Nat
  BY FiniteAssumption, FS_CardinalityType
<1> QED BY <1>1, <1>2, <1>3, <1>4, FiniteAssumption, NoneAssumption

\* Two sets that agree on all elements but one differ in size by that element.
LEMMA OneMoved ==
  ASSUME NEW S, NEW T, NEW x, IsFiniteSet(S), S \ {x} = T \ {x}
  PROVE  /\ IsFiniteSet(T) /\ Cardinality(S) \in Nat /\ Cardinality(T) \in Nat
         /\ Cardinality(T) = Cardinality(S) - One(x \in S) + One(x \in T)
<1> DEFINE R == S \ {x}
<1>1. IsFiniteSet(R) /\ Cardinality(R) \in Nat /\ Cardinality(S) \in Nat
  BY FS_RemoveElement, FS_CardinalityType
<1>2. Cardinality(S) = Cardinality(R) + One(x \in S)
  BY <1>1, FS_RemoveElement DEF One
<1>3. T = R \/ (T = R \cup {x} /\ x \in T)
  OBVIOUS
<1>4. x \notin R
  OBVIOUS
<1>5. IsFiniteSet(T) /\ Cardinality(T) = Cardinality(R) + One(x \in T)
  <2> HIDE DEF R
  <2>1. CASE x \in T
    <3>1. T = R \cup {x}
      BY <1>3, <1>4, <2>1
    <3>2. IsFiniteSet(R \cup {x}) /\ Cardinality(R \cup {x}) = Cardinality(R) + 1
      BY <1>1, <1>4, FS_AddElement
    <3> QED BY <2>1, <3>1, <3>2 DEF One
  <2>2. CASE x \notin T
    <3>1. T = R
      BY <1>3, <2>2
    <3> QED BY <1>1, <2>2, <3>1 DEF One
  <2> QED BY <2>1, <2>2
<1>6. One(x \in S) \in 0..1 /\ One(x \in T) \in 0..1
  BY DEF One
<1> HIDE DEF R
<1> QED BY <1>1, <1>2, <1>5, <1>6

\* Some number of a set of numbers is the smallest.
LEMMA Least == ASSUME NEW S, S \subseteq Nat, S # {} PROVE \E i \in S : \A j \in S : i <= j
<1>1. IsWellFoundedOn(OpToRel(<, Nat), Nat)
  BY NatLessThanWellFounded
<1>2. PICK i \in S : \A j \in S : ~(<<j, i>> \in OpToRel(<, Nat))
  BY <1>1, WFMin, Zenon
<1>3. \A j \in S : ~(j < i)
  BY <1>2 DEF OpToRel
<1> QED BY <1>3

\* nextSyntheticProjectID finds an id as long as there is one.
LEMMA NewId ==
  ASSUME NEW progs \in SUBSET Ids, NEW rest \in SUBSET progs, Cardinality(progs) < MaxId
  PROVE  SmallestFree(rest) \in Ids \ rest
<1> USE Constants
<1>1. Ids \ rest # {}
  <2> SUFFICES ASSUME Ids \subseteq rest
               PROVE  FALSE
    OBVIOUS
  <2>1. progs = Ids
    OBVIOUS
  <2> QED BY <2>1
<1>2. Ids \ rest \subseteq Nat
  BY DEF Ids
<1>3. \E i \in Ids \ rest : \A j \in Ids \ rest : i <= j
  BY <1>1, <1>2, Least
<1> QED BY <1>3 DEF SmallestFree

-----------------------------------------------------------------------------
(* What a request does to a snapshot.                                           *)

LEMMA Records ==
  /\ Empty \in Snapshot /\ Empty.count = 0 /\ Empty.files = 0 /\ ~Empty.overlay /\ Empty.progs = {}
  /\ Empty.broken = {} /\ ~Needed(Empty)
  /\ NoOpens \in Opens /\ ~NoOpens.project /\ ~NoOpens.file
  /\ NoEntry \in Entry /\ NoEntry.refCount = 0 /\ NoEntry.snapshot = Empty /\ NoEntry.opens = NoOpens
<1> USE Constants
<1>1. Empty \in Snapshot
  BY DEF Empty, Snapshot
<1>2. /\ Empty.count = 0 /\ Empty.files = 0 /\ ~Empty.overlay /\ Empty.progs = {}
      /\ Empty.broken = {} /\ ~Needed(Empty)
  BY DEF Empty, Needed
<1>3. NoOpens \in Opens /\ ~NoOpens.project /\ ~NoOpens.file
  BY DEF NoOpens, Opens
<1>4. NoEntry \in Entry /\ NoEntry.refCount = 0 /\ NoEntry.snapshot = Empty /\ NoEntry.opens = NoOpens
  BY <1>1, <1>3 DEF NoEntry, Entry
<1> QED BY <1>1, <1>2, <1>3, <1>4

\* Asking for what is new and for what is the client's own.
LEMMA Reconciling ==
  ASSUME NEW ops \in SUBSET Ops, NEW st \in Opens
  PROVE  /\ Reconciled(ops, st) \subseteq Ops
         /\ OpenState(ops, st) \in Opens
         /\ "create" \in Reconciled(ops, st) <=> "create" \in ops
         /\ Agrees(Reconciled(ops, st), OpenState(ops, st), st)
<1>1. /\ OpenState(ops, st) \in Opens
      /\ OpenState(ops, st).project <=> "openProject" \in ops \/ (st.project /\ "closeProject" \notin ops)
      /\ OpenState(ops, st).file <=> "openFile" \in ops \/ (st.file /\ "closeFile" \notin ops)
  BY DEF OpenState, Opens
<1>2. /\ Reconciled(ops, st) \subseteq Ops
      /\ "create" \in Reconciled(ops, st) <=> "create" \in ops
      /\ "closeProject" \in Reconciled(ops, st) <=> "closeProject" \in ops /\ st.project
      /\ "openProject" \in Reconciled(ops, st) <=>
            "openProject" \in ops /\ ~(st.project /\ "closeProject" \notin ops)
  BY DEF Reconciled
<1>3. /\ "closeFile" \in Reconciled(ops, st) <=> "closeFile" \in ops /\ st.file
      /\ "openFile" \in Reconciled(ops, st) <=> "openFile" \in ops /\ ~(st.file /\ "closeFile" \notin ops)
  BY DEF Reconciled
<1> QED BY <1>1, <1>2, <1>3 DEF Agrees

\* What cleaning up does.
LEMMA CleaningUp ==
  ASSUME NEW s \in Snapshot
  PROVE  /\ Cleanup(s) \in Snapshot
         /\ Cleanup(s).count = s.count /\ Cleanup(s).files = s.files /\ Cleanup(s).overlay = s.overlay
         /\ Cleanup(s).progs = s.progs /\ Cleanup(s).broken = s.broken
         /\ (Needed(s) => s.loaded) => (Needed(Cleanup(s)) => Cleanup(s).loaded)
         /\ Needed(Cleanup(s)) <=> Needed(s)
<1>1. /\ Cleanup(s).count = s.count /\ Cleanup(s).files = s.files /\ Cleanup(s).overlay = s.overlay
      /\ Cleanup(s).progs = s.progs /\ Cleanup(s).broken = s.broken
      /\ Cleanup(s).loaded <=> s.loaded /\ Needed(s)
  BY DEF Cleanup, Snapshot
<1>2. (s.loaded /\ Needed(s)) \in BOOLEAN
  OBVIOUS
<1>3. Cleanup(s) \in Snapshot
  BY <1>2 DEF Cleanup, Snapshot
<1>4. Needed(Cleanup(s)) <=> Needed(s)
  BY <1>1 DEF Needed
<1> QED BY <1>1, <1>3, <1>4

\* The first half of a request: the counts.
LEMMA Counting ==
  ASSUME NEW s \in Snapshot, NEW ops \in SUBSET Ops,
         "openProject" \in ops => s.count - One("closeProject" \in ops) < Cardinality(Clients),
         "openFile" \in ops => s.files - One("closeFile" \in ops) < Cardinality(Clients),
         "closeProject" \in ops => s.count > 0,
         "closeFile" \in ops => s.files > 0,
         NEW t, t = OpenedFiles(OpenedProject(s, ops), ops)
  PROVE  /\ t \in Snapshot
         /\ t.count = s.count - One("closeProject" \in ops) + One("openProject" \in ops)
         /\ t.files = s.files - One("closeFile" \in ops) + One("openFile" \in ops)
         /\ t.overlay = s.overlay /\ t.progs = s.progs /\ t.broken = s.broken
         /\ t.loaded <=> s.loaded \/ "openProject" \in ops
<1> USE Constants
<1> DEFINE p == OpenedProject(s, ops)
<1>0. s.count \in 0..Cardinality(Clients) /\ s.files \in 0..Cardinality(Clients)
  BY DEF Snapshot
<1>1. /\ p.count = s.count - One("closeProject" \in ops) + One("openProject" \in ops)
      /\ p.files = s.files /\ p.overlay = s.overlay /\ p.progs = s.progs /\ p.broken = s.broken
      /\ p.loaded = IF "openProject" \in ops THEN TRUE ELSE s.loaded
      /\ p \in Snapshot
  <2> DEFINE n == IF "closeProject" \in ops /\ s.count > 0 THEN s.count - 1 ELSE s.count
             c == [s EXCEPT !.count = n]
  <2>1. n \in 0..Cardinality(Clients) /\ n = s.count - One("closeProject" \in ops)
    BY <1>0 DEF One
  <2>2. p = IF "openProject" \in ops THEN [c EXCEPT !.count = @ + 1, !.loaded = TRUE] ELSE c
    BY DEF OpenedProject
  <2> HIDE DEF n, p
  <2>3. /\ c \in Snapshot /\ c.count = n /\ c.files = s.files /\ c.overlay = s.overlay
        /\ c.progs = s.progs /\ c.broken = s.broken /\ c.loaded = s.loaded
    BY <2>1 DEF Snapshot
  <2> HIDE DEF c
  <2>4. CASE "openProject" \in ops
    <3>1. n + 1 \in 0..Cardinality(Clients)
      BY <2>1, <2>4
    <3>2. p = [c EXCEPT !.count = n + 1, !.loaded = TRUE]
      BY <2>2, <2>3, <2>4
    <3>3. p.count = n + 1 /\ p.loaded = TRUE /\ p \in Snapshot /\ p.files = c.files
          /\ p.overlay = c.overlay /\ p.progs = c.progs /\ p.broken = c.broken
      BY <2>3, <3>1, <3>2 DEF Snapshot
    <3>4. One("openProject" \in ops) = 1
      BY <2>4 DEF One
    <3> QED BY <2>1, <2>3, <2>4, <3>3, <3>4
  <2>5. CASE "openProject" \notin ops
    <3>1. One("openProject" \in ops) = 0 /\ p = c
      BY <2>2, <2>5 DEF One
    <3> QED BY <2>1, <2>3, <2>5, <3>1
  <2> QED BY <2>4, <2>5
<1>2. p.loaded <=> s.loaded \/ "openProject" \in ops
  BY <1>1
<1> HIDE DEF p
<1>3. t = OpenedFiles(p, ops)
  BY DEF p
<1>4. /\ t.files = p.files - One("closeFile" \in ops) + One("openFile" \in ops)
      /\ t.count = p.count /\ t.overlay = p.overlay /\ t.progs = p.progs /\ t.broken = p.broken
      /\ t.loaded = p.loaded
      /\ t \in Snapshot
  <2> DEFINE n == IF "closeFile" \in ops /\ p.files > 0 THEN p.files - 1 ELSE p.files
             c == [p EXCEPT !.files = n]
  <2>1. n \in 0..Cardinality(Clients) /\ n = p.files - One("closeFile" \in ops)
    BY <1>0, <1>1 DEF One
  <2>2. t = IF "openFile" \in ops THEN [c EXCEPT !.files = @ + 1] ELSE c
    BY <1>3 DEF OpenedFiles
  <2> HIDE DEF n
  <2>3. /\ c \in Snapshot /\ c.files = n /\ c.count = p.count /\ c.overlay = p.overlay
        /\ c.progs = p.progs /\ c.broken = p.broken /\ c.loaded = p.loaded
    BY <1>1, <2>1 DEF Snapshot
  <2> HIDE DEF c
  <2>4. CASE "openFile" \in ops
    <3>1. n + 1 \in 0..Cardinality(Clients)
      BY <1>1, <2>1, <2>4
    <3>2. t = [c EXCEPT !.files = n + 1]
      BY <2>2, <2>3, <2>4
    <3>3. t.files = n + 1 /\ t.loaded = c.loaded /\ t \in Snapshot /\ t.count = c.count
          /\ t.overlay = c.overlay /\ t.progs = c.progs /\ t.broken = c.broken
      BY <2>3, <3>1, <3>2 DEF Snapshot
    <3>4. One("openFile" \in ops) = 1
      BY <2>4 DEF One
    <3> QED BY <2>1, <2>3, <3>3, <3>4
  <2>5. CASE "openFile" \notin ops
    <3>1. One("openFile" \in ops) = 0 /\ t = c
      BY <2>2, <2>5 DEF One
    <3> QED BY <2>1, <2>3, <3>1
  <2> QED BY <2>4, <2>5
<1> QED BY <1>1, <1>2, <1>4

\* The second half: what nobody needs is unloaded, and an opened file's project is loaded.
LEMMA Placing ==
  ASSUME NEW t \in Snapshot, NEW ops \in SUBSET Ops,
         Needed(t) => t.loaded \/ "openFile" \in ops,
         NEW u, u = Placed(Unloaded(t, ops), ops)
  PROVE  /\ u \in Snapshot
         /\ u.count = t.count /\ u.files = t.files /\ u.overlay = t.overlay
         /\ u.progs = t.progs /\ u.broken = t.broken
         /\ Needed(u) => u.loaded
<1> DEFINE m == Unloaded(t, ops)
           k == [m EXCEPT !.loaded = TRUE]
<1>1. /\ m \in Snapshot
      /\ m.count = t.count /\ m.files = t.files /\ m.overlay = t.overlay
      /\ m.progs = t.progs /\ m.broken = t.broken
      /\ "openFile" \notin ops => (Needed(m) => m.loaded)
  <2>1. CASE m = t
    BY <2>1
  <2>2. CASE m = Cleanup(t)
    BY <2>2, CleaningUp
  <2> QED BY <2>1, <2>2 DEF Unloaded
<1> HIDE DEF m
<1>2. u = IF "openFile" \in ops THEN Cleanup(k) ELSE IF "closeFile" \in ops THEN Cleanup(m) ELSE m
  BY DEF Placed, m
<1>3. /\ k \in Snapshot /\ k.loaded
      /\ k.count = m.count /\ k.files = m.files /\ k.overlay = m.overlay
      /\ k.progs = m.progs /\ k.broken = m.broken
  BY <1>1 DEF Snapshot
<1> HIDE DEF k
<1>4. CASE "openFile" \in ops
  BY <1>1, <1>2, <1>3, <1>4, CleaningUp
<1>5. CASE "openFile" \notin ops /\ "closeFile" \in ops
  BY <1>1, <1>2, <1>5, CleaningUp
<1>6. CASE "openFile" \notin ops /\ "closeFile" \notin ops
  BY <1>1, <1>2, <1>6
<1> QED BY <1>4, <1>5, <1>6

\* Altogether: a request that agrees with what its client has, on a snapshot that is sound for
\* that client.
Results(s, ask, o, opens, u) ==
  /\ u \in Snapshot /\ Sound(u, opens)
  /\ u.count = s.count - One(o.project) + One(opens.project)
  /\ u.files = s.files - One(o.file) + One(opens.file)
  /\ u.overlay = s.overlay
  /\ u.progs = (s.progs \ ask.remove) \cup Created(s, ask)
  /\ u.broken = s.broken \ ask.remove
  /\ Created(s, ask) \subseteq Ids \ (s.progs \ ask.remove)
  /\ "create" \notin ask.ops => Created(s, ask) = {}
  /\ Cardinality(Created(s, ask)) <= One("create" \in ask.ops)

LEMMA Applying ==
  ASSUME NEW s \in Snapshot, NEW ask \in Ask, NEW o, NEW opens \in Opens,
         Sound(s, o), Agrees(ask.ops, opens, o),
         "create" \in ask.ops => Cardinality(s.progs) < MaxId,
         NEW u, u = Applied(s, ask)
  PROVE  Results(s, ask, o, opens, u)
<1> USE Constants
<1>0. /\ s.count \in 0..Cardinality(Clients) /\ s.files \in 0..Cardinality(Clients)
      /\ s.progs \subseteq Ids /\ s.broken \subseteq Ids /\ ask.ops \in SUBSET Ops
  BY DEF Snapshot, Ask
<1> DEFINE t == OpenedFiles(OpenedProject(s, ask.ops), ask.ops)
           p == Placed(Unloaded(t, ask.ops), ask.ops)
<1>1. /\ "openProject" \in ask.ops => s.count - One("closeProject" \in ask.ops) < Cardinality(Clients)
      /\ "closeProject" \in ask.ops => s.count > 0
      /\ One(opens.project) - One(o.project) =
           One("openProject" \in ask.ops) - One("closeProject" \in ask.ops)
      /\ One(opens.project) \in 0..1 /\ One(o.project) \in 0..1
      /\ One("openProject" \in ask.ops) \in 0..1 /\ One("closeProject" \in ask.ops) \in 0..1
  BY <1>0 DEF Sound, Agrees, One
<1>2. /\ "openFile" \in ask.ops => s.files - One("closeFile" \in ask.ops) < Cardinality(Clients)
      /\ "closeFile" \in ask.ops => s.files > 0
      /\ One(opens.file) - One(o.file) = One("openFile" \in ask.ops) - One("closeFile" \in ask.ops)
      /\ One(opens.file) \in 0..1 /\ One(o.file) \in 0..1
      /\ One("openFile" \in ask.ops) \in 0..1 /\ One("closeFile" \in ask.ops) \in 0..1
  BY <1>0 DEF Sound, Agrees, One
<1>3. /\ t \in Snapshot
      /\ t.count = s.count - One("closeProject" \in ask.ops) + One("openProject" \in ask.ops)
      /\ t.files = s.files - One("closeFile" \in ask.ops) + One("openFile" \in ask.ops)
      /\ t.overlay = s.overlay /\ t.progs = s.progs /\ t.broken = s.broken
      /\ t.loaded <=> s.loaded \/ "openProject" \in ask.ops
  BY <1>0, <1>1, <1>2, Counting
<1> HIDE DEF t
<1>4. /\ t.count = s.count - One(o.project) + One(opens.project)
      /\ t.files = s.files - One(o.file) + One(opens.file)
  BY <1>0, <1>1, <1>2, <1>3
<1>5. Needed(t) => t.loaded \/ "openFile" \in ask.ops
  <2> SUFFICES ASSUME Needed(t), "openFile" \notin ask.ops, "openProject" \notin ask.ops
               PROVE  t.loaded
    BY <1>3
  <2>1. Needed(s)
    BY <1>0, <1>3 DEF Needed, One
  <2> QED BY <1>3, <2>1 DEF Sound
<1>6. /\ p \in Snapshot
      /\ p.count = t.count /\ p.files = t.files /\ p.overlay = t.overlay
      /\ p.progs = t.progs /\ p.broken = t.broken
      /\ Needed(p) => p.loaded
  BY <1>0, <1>3, <1>5, Placing
<1>7. u = [p EXCEPT !.progs = (@ \ ask.remove) \cup Created(s, ask), !.broken = @ \ ask.remove]
  BY DEF Applied, t
<1> HIDE DEF p
<1>8. /\ Created(s, ask) \subseteq Ids \ (s.progs \ ask.remove)
      /\ "create" \notin ask.ops => Created(s, ask) = {}
      /\ Cardinality(Created(s, ask)) <= One("create" \in ask.ops)
  <2>1. CASE "create" \in ask.ops
    <3>1. SmallestFree(s.progs \ ask.remove) \in Ids \ (s.progs \ ask.remove)
      BY <1>0, <2>1, NewId
    <3>2. Created(s, ask) = {SmallestFree(s.progs \ ask.remove)}
      BY <2>1 DEF Created
    <3>3. Cardinality(Created(s, ask)) = 1
      BY <3>2, FS_Singleton
    <3> QED BY <2>1, <3>1, <3>2, <3>3 DEF One
  <2>2. CASE "create" \notin ask.ops
    BY <2>2, FS_EmptySet DEF Created, One
  <2> QED BY <2>1, <2>2
<1>9. /\ u \in Snapshot /\ u.count = p.count /\ u.files = p.files /\ u.overlay = p.overlay
      /\ u.loaded = p.loaded
      /\ u.progs = (s.progs \ ask.remove) \cup Created(s, ask) /\ u.broken = s.broken \ ask.remove
  <2>1. (p.progs \ ask.remove) \cup Created(s, ask) \subseteq Ids /\ p.broken \ ask.remove \subseteq Ids
    BY <1>0, <1>3, <1>6, <1>8
  <2> QED BY <1>3, <1>6, <1>7, <2>1 DEF Snapshot
<1>10. Sound(u, opens)
  <2>1. Needed(u) => u.loaded
    BY <1>6, <1>9 DEF Needed
  <2>2. IF opens.project THEN u.count > 0 ELSE u.count < Cardinality(Clients)
    BY <1>0, <1>4, <1>6, <1>9 DEF Sound, One
  <2>3. IF opens.file THEN u.files > 0 ELSE u.files < Cardinality(Clients)
    BY <1>0, <1>4, <1>6, <1>9 DEF Sound, One
  <2> QED BY <2>1, <2>2, <2>3 DEF Sound
<1> QED BY <1>3, <1>4, <1>6, <1>8, <1>9, <1>10 DEF Results

-----------------------------------------------------------------------------
(* Requests and what their clients have.                                        *)

\* One client has at most one update under way: it holds the client's lock.
LEMMA OneUpdate ==
  ASSUME RequestsOk, NEW r \in Requests, req[r].pc \in Updating
  PROVE  /\ req[r].client \in Clients /\ lsMu[req[r].client] = r
         /\ \A x \in Requests : req[x].pc \in Updating /\ req[x].client = req[r].client => x = r
         /\ req[r].pc # "adopted" => Adopted(req[r].client) = {}
         /\ req[r].pc = "adopted" => Adopted(req[r].client) = {r}
<1>1. /\ req[r].client \in Clients /\ lsMu[req[r].client] = r
      /\ \A x \in Requests : req[x].pc \in Updating /\ req[x].client = req[r].client => x = r
  BY DEF RequestsOk, RequestOf, Updating
<1>2. \A x \in Adopted(req[r].client) : x = r /\ req[r].pc = "adopted"
  BY <1>1 DEF Adopted, Updating
<1>3. req[r].pc = "adopted" => r \in Adopted(req[r].client)
  BY DEF Adopted
<1> QED BY <1>1, <1>2, <1>3

LEMMA NoUpdate ==
  ASSUME RequestsOk, NEW c \in Clients, lsMu[c] = None \/ (\A r \in InProgress : req[r].client # c)
  PROVE  Adopted(c) = {}
<1> SUFFICES ASSUME NEW r \in Adopted(c)
             PROVE  FALSE
  OBVIOUS
<1>1. r \in Requests /\ req[r].pc = "adopted" /\ req[r].client = c
  BY DEF Adopted
<1>2. r # None
  BY <1>1, Constants
<1> QED BY <1>1, <1>2, OneUpdate DEF InProgress, Updating

\* What a client without an adopted update has is what it owns.
LEMMA Owning ==
  ASSUME NEW c, Adopted(c) = {}
  PROVE  (HasProject(c) <=> own[c].project) /\ (HasFile(c) <=> own[c].file) /\ HasPrograms(c) = own[c].progs
<1>1. HasPrograms(c) = own[c].progs
  BY DEF HasPrograms
<1> QED BY <1>1 DEF HasProject, HasFile

\* What a client with an adopted update has is what the update has left it.
LEMMA Adopting ==
  ASSUME NEW c, NEW r, Adopted(c) = {r}
  PROVE  /\ HasProject(c) <=> req[r].opens.project
         /\ HasFile(c) <=> req[r].opens.file
         /\ HasPrograms(c) = (own[c].progs \ req[r].ask.remove) \cup req[r].created
<1>1. HasPrograms(c) = (own[c].progs \ req[r].ask.remove) \cup req[r].created
  BY DEF HasPrograms
<1>2. Adopted(c) # {}
  OBVIOUS
<1> QED BY <1>1, <1>2 DEF HasProject, HasFile

\* The same of the state after a step.
LEMMA OwningNext ==
  ASSUME NEW c, Adopted(c)' = {}
  PROVE  (HasProject(c)' <=> own'[c].project) /\ (HasFile(c)' <=> own'[c].file) /\ HasPrograms(c)' = own'[c].progs
<1>1. HasPrograms(c)' = own'[c].progs
  BY DEF HasPrograms
<1> QED BY <1>1 DEF HasProject, HasFile

LEMMA AdoptingNext ==
  ASSUME NEW c, NEW r, Adopted(c)' = {r}
  PROVE  /\ HasProject(c)' <=> req'[r].opens.project
         /\ HasFile(c)' <=> req'[r].opens.file
         /\ HasPrograms(c)' = (own'[c].progs \ req'[r].ask.remove) \cup req'[r].created
<1>1. HasPrograms(c)' = (own'[c].progs \ req'[r].ask.remove) \cup req'[r].created
  BY DEF HasPrograms
<1>2. Adopted(c)' # {}
  OBVIOUS
<1> QED BY <1>1, <1>2 DEF HasProject, HasFile

\* A step of another client, or one that adopts nothing, leaves what a client has.
LEMMA SameHas ==
  ASSUME NEW c, own'[c] = own[c], Adopted(c)' = Adopted(c),
         \A r \in Adopted(c) : req'[r] = req[r]
  PROVE  (HasProject(c)' <=> HasProject(c)) /\ (HasFile(c)' <=> HasFile(c)) /\ HasPrograms(c)' = HasPrograms(c)
<1>1. UNION {req'[r].ask.remove : r \in Adopted(c)} = UNION {req[r].ask.remove : r \in Adopted(c)}
  OBVIOUS
<1>2. UNION {req'[r].created : r \in Adopted(c)} = UNION {req[r].created : r \in Adopted(c)}
  OBVIOUS
<1>3. HasPrograms(c)' = HasPrograms(c)
  BY <1>1, <1>2 DEF HasPrograms
<1>4. HasProject(c)' <=> HasProject(c)
  BY DEF HasProject
<1>5. HasFile(c)' <=> HasFile(c)
  BY DEF HasFile
<1> QED BY <1>3, <1>4, <1>5

\* The counts are exact for what everybody has; so they stay when nobody gets or loses anything.
KeepsAll ==
  \A c \in Clients : /\ HasProject(c)' <=> HasProject(c)
                     /\ HasFile(c)' <=> HasFile(c)
                     /\ HasPrograms(c)' = HasPrograms(c)

LEMMA CountsKept ==
  ASSUME OpensCounted, ProgramsOwned, KeepsAll,
         canon'.count = canon.count, canon'.files = canon.files, canon'.progs = canon.progs
  PROVE  OpensCounted' /\ ProgramsOwned'
<1>1. {c \in Clients : HasProject(c)'} = {c \in Clients : HasProject(c)}
  BY DEF KeepsAll
<1>2. {c \in Clients : HasFile(c)'} = {c \in Clients : HasFile(c)}
  BY DEF KeepsAll
<1>3. OpensCounted'
  BY <1>1, <1>2 DEF OpensCounted
<1>4. {HasPrograms(c)' : c \in Clients} = {HasPrograms(c) : c \in Clients}
  BY DEF KeepsAll
<1>5. ProgramsOwned'
  BY <1>4 DEF ProgramsOwned, KeepsAll
<1> QED BY <1>3, <1>5

\* The server's snapshot is sound for every client, with what that client has.
LEMMA CanonSoundFor ==
  ASSUME IInv, NEW c \in Clients, NEW s \in Snapshot, NEW o,
         s.count = canon.count, s.files = canon.files, Needed(s) => s.loaded,
         o.project <=> HasProject(c), o.file <=> HasFile(c)
  PROVE  Sound(s, o)
<1> USE Constants
<1> DEFINE P == {d \in Clients : HasProject(d)}
           F == {d \in Clients : HasFile(d)}
<1>1. s.count = Cardinality(P) /\ s.files = Cardinality(F)
  BY DEF IInv, OpensCounted
<1>2. IsFiniteSet(P) /\ Cardinality(P) \in Nat /\ IsFiniteSet(F) /\ Cardinality(F) \in Nat
  <2>1. P \in SUBSET Clients /\ F \in SUBSET Clients
    OBVIOUS
  <2>2. IsFiniteSet(P) /\ IsFiniteSet(F)
    BY <2>1, FS_Subset
  <2> QED BY <2>2, FS_CardinalityType
<1>3. P \subseteq Clients /\ F \subseteq Clients /\ (c \in P <=> o.project) /\ (c \in F <=> o.file)
  OBVIOUS
<1> HIDE DEF P, F
<1>4. IF o.project THEN Cardinality(P) > 0 ELSE Cardinality(P) < Cardinality(Clients)
  <2>1. CASE o.project
    <3>1. P # {}
      BY <1>3, <2>1
    <3>2. Cardinality(P) # 0
      BY <1>2, <3>1, FS_EmptySet
    <3> QED BY <1>2, <2>1, <3>2
  <2>2. CASE ~o.project
    <3>1. Cardinality(P) <= Cardinality(Clients) /\ (Cardinality(Clients) = Cardinality(P) => Clients = P)
      BY <1>3, FS_Subset
    <3> QED BY <1>2, <1>3, <2>2, <3>1
  <2> QED BY <2>1, <2>2
<1>5. IF o.file THEN Cardinality(F) > 0 ELSE Cardinality(F) < Cardinality(Clients)
  <2>1. CASE o.file
    <3>1. F # {}
      BY <1>3, <2>1
    <3>2. Cardinality(F) # 0
      BY <1>2, <3>1, FS_EmptySet
    <3> QED BY <1>2, <2>1, <3>2
  <2>2. CASE ~o.file
    <3>1. Cardinality(F) <= Cardinality(Clients) /\ (Cardinality(Clients) = Cardinality(F) => Clients = F)
      BY <1>3, FS_Subset
    <3> QED BY <1>2, <1>3, <2>2, <3>1
  <2> QED BY <2>1, <2>2
<1> QED BY <1>1, <1>4, <1>5 DEF Sound

\* One client's opens and programs change, and the server's snapshot with them.
KeepsOthers(c) ==
  \A d \in Clients \ {c} : /\ HasProject(d)' <=> HasProject(d)
                           /\ HasFile(d)' <=> HasFile(d)
                           /\ HasPrograms(d)' = HasPrograms(d)

LEMMA CountsMoved ==
  ASSUME OpensCounted, ProgramsOwned, NEW c \in Clients, KeepsOthers(c),
         canon'.count = canon.count - One(HasProject(c)) + One(HasProject(c)'),
         canon'.files = canon.files - One(HasFile(c)) + One(HasFile(c)'),
         NEW gone, gone \subseteq HasPrograms(c), NEW new, new \cap (canon.progs \ gone) = {},
         HasPrograms(c)' = (HasPrograms(c) \ gone) \cup new,
         canon'.progs = (canon.progs \ gone) \cup new
  PROVE  OpensCounted' /\ ProgramsOwned'
<1> USE Constants
<1>1. canon'.count = Cardinality({d \in Clients : HasProject(d)'})
  <2> DEFINE S == {d \in Clients : HasProject(d)}
             T == {d \in Clients : HasProject(d)'}
  <2>1. S \ {c} = T \ {c} /\ (c \in S <=> HasProject(c)) /\ (c \in T <=> HasProject(c)')
    BY DEF KeepsOthers
  <2>2. IsFiniteSet(S)
    <3>1. S \in SUBSET Clients
      OBVIOUS
    <3> QED BY <3>1, FS_Subset
  <2>3. canon.count = Cardinality(S)
    BY DEF OpensCounted
  <2> HIDE DEF S, T
  <2>4. Cardinality(T) = Cardinality(S) - One(c \in S) + One(c \in T)
    BY <2>1, <2>2, OneMoved
  <2>5. One(c \in S) = One(HasProject(c)) /\ One(c \in T) = One(HasProject(c)')
    BY <2>1 DEF One
  <2>6. Cardinality(T) = canon'.count
    BY <2>3, <2>4, <2>5
  <2> QED BY <2>6 DEF T
<1>2. canon'.files = Cardinality({d \in Clients : HasFile(d)'})
  <2> DEFINE S == {d \in Clients : HasFile(d)}
             T == {d \in Clients : HasFile(d)'}
  <2>1. S \ {c} = T \ {c} /\ (c \in S <=> HasFile(c)) /\ (c \in T <=> HasFile(c)')
    BY DEF KeepsOthers
  <2>2. IsFiniteSet(S)
    <3>1. S \in SUBSET Clients
      OBVIOUS
    <3> QED BY <3>1, FS_Subset
  <2>3. canon.files = Cardinality(S)
    BY DEF OpensCounted
  <2> HIDE DEF S, T
  <2>4. Cardinality(T) = Cardinality(S) - One(c \in S) + One(c \in T)
    BY <2>1, <2>2, OneMoved
  <2>5. One(c \in S) = One(HasFile(c)) /\ One(c \in T) = One(HasFile(c)')
    BY <2>1 DEF One
  <2>6. Cardinality(T) = canon'.files
    BY <2>3, <2>4, <2>5
  <2> QED BY <2>6 DEF T
<1>3. \A d \in Clients \ {c} : HasPrograms(d) \subseteq canon.progs \ gone
  BY DEF ProgramsOwned
<1>4. canon'.progs = UNION {HasPrograms(d)' : d \in Clients}
  <2>1. canon.progs = UNION {HasPrograms(d) : d \in Clients}
    BY DEF ProgramsOwned
  <2>2. ASSUME NEW i \in canon'.progs PROVE \E d \in Clients : i \in HasPrograms(d)'
    <3>1. i \in new \/ (i \in canon.progs /\ i \notin gone)
      BY <2>2
    <3>2. CASE i \in new
      BY <3>2
    <3>3. CASE i \in canon.progs /\ i \notin gone
      <4>1. PICK d \in Clients : i \in HasPrograms(d)
        BY <2>1, <3>3
      <4> QED BY <3>3, <4>1 DEF KeepsOthers
    <3> QED BY <3>1, <3>2, <3>3
  <2>3. ASSUME NEW d \in Clients PROVE HasPrograms(d)' \subseteq canon'.progs
    <3>1. CASE d = c
      <4>1. HasPrograms(c) \subseteq canon.progs
        BY DEF ProgramsOwned
      <4> QED BY <3>1, <4>1
    <3>2. CASE d # c
      BY <1>3, <3>2 DEF KeepsOthers
    <3> QED BY <3>1, <3>2
  <2> QED BY <2>2, <2>3
<1>5. \A d, e \in Clients : d = e \/ HasPrograms(d)' \cap HasPrograms(e)' = {}
  <2>1. \A d, e \in Clients : d = e \/ HasPrograms(d) \cap HasPrograms(e) = {}
    BY DEF ProgramsOwned
  <2>2. ASSUME NEW d \in Clients \ {c} PROVE HasPrograms(d)' \cap HasPrograms(c)' = {}
    <3>1. HasPrograms(d)' = HasPrograms(d) /\ HasPrograms(d) \cap HasPrograms(c) = {}
      BY <2>1 DEF KeepsOthers
    <3> QED BY <1>3, <3>1
  <2>3. ASSUME NEW d \in Clients \ {c}, NEW e \in Clients \ {c} PROVE d = e \/ HasPrograms(d)' \cap HasPrograms(e)' = {}
    BY <2>1 DEF KeepsOthers
  <2> QED BY <2>2, <2>3
<1> QED BY <1>1, <1>2, <1>4, <1>5 DEF OpensCounted, ProgramsOwned

-----------------------------------------------------------------------------
(* References to snapshots, and room for more.                                  *)

Uses(q, c, h) == q.pc # "idle" /\ q.client = c /\ q.base = h
Answers(q, c, h) == q.pc # "idle" /\ q.client = c /\ q.handle = h

\* One request goes on.
Moves(r, q) == /\ r \in Requests /\ DOMAIN req = Requests
               /\ req' = [req EXCEPT ![r] = q]

LEMMA Moving ==
  ASSUME NEW r, NEW q, Moves(r, q)
  PROVE  r \in Requests /\ req'[r] = q /\ \A x \in Requests \ {r} : req'[x] = req[x]
BY DEF Moves

LEMMA UsingSets ==
  ASSUME NEW c, NEW h
  PROVE  /\ Using(c, h) = {x \in Requests : Uses(req[x], c, h)}
         /\ Answering(c, h) = {x \in Requests : Answers(req[x], c, h)}
         /\ Using(c, h)' = {x \in Requests : Uses(req'[x], c, h)}
         /\ Answering(c, h)' = {x \in Requests : Answers(req'[x], c, h)}
         /\ IsFiniteSet(Using(c, h)) /\ IsFiniteSet(Answering(c, h))
         /\ Cardinality(Using(c, h)) \in Nat /\ Cardinality(Answering(c, h)) \in Nat
<1> USE Constants
<1>1. /\ Using(c, h) = {x \in Requests : Uses(req[x], c, h)}
      /\ Answering(c, h) = {x \in Requests : Answers(req[x], c, h)}
  BY DEF Using, Answering, Uses, Answers, InProgress
<1>2. /\ Using(c, h)' = {x \in Requests : Uses(req'[x], c, h)}
      /\ Answering(c, h)' = {x \in Requests : Answers(req'[x], c, h)}
  BY DEF Using, Answering, Uses, Answers, InProgress
<1>3. Using(c, h) \in SUBSET Requests /\ Answering(c, h) \in SUBSET Requests
  BY <1>1
<1>4. IsFiniteSet(Using(c, h)) /\ IsFiniteSet(Answering(c, h))
  BY <1>3, FS_Subset
<1> QED BY <1>1, <1>2, <1>4, FS_CardinalityType

\* Only the references of that request move.
LEMMA ReferencesMove ==
  ASSUME NEW r, NEW q, Moves(r, q), NEW c, NEW h
  PROVE  /\ Cardinality(Using(c, h))' =
              Cardinality(Using(c, h)) - One(Uses(req[r], c, h)) + One(Uses(q, c, h))
         /\ Cardinality(Answering(c, h))' =
              Cardinality(Answering(c, h)) - One(Answers(req[r], c, h)) + One(Answers(q, c, h))
         /\ Cardinality(Using(c, h))' \in Nat /\ Cardinality(Answering(c, h))' \in Nat
<1> DEFINE U == {x \in Requests : Uses(req[x], c, h)}
           V == {x \in Requests : Uses(req'[x], c, h)}
           A == {x \in Requests : Answers(req[x], c, h)}
           B == {x \in Requests : Answers(req'[x], c, h)}
<1>1. /\ U \ {r} = V \ {r} /\ (r \in U <=> Uses(req[r], c, h)) /\ (r \in V <=> Uses(q, c, h))
      /\ A \ {r} = B \ {r} /\ (r \in A <=> Answers(req[r], c, h)) /\ (r \in B <=> Answers(q, c, h))
  BY Moving
<1>3. Using(c, h) = U /\ Using(c, h)' = V /\ Answering(c, h) = A /\ Answering(c, h)' = B
  BY UsingSets
<1>8. IsFiniteSet(Using(c, h)) /\ IsFiniteSet(Answering(c, h))
  BY UsingSets
<1>2. IsFiniteSet(U) /\ IsFiniteSet(A)
  <2> HIDE DEF U, V, A, B
  <2> QED BY <1>3, <1>8
<1> HIDE DEF U, V, A, B
<1>4. Cardinality(V) = Cardinality(U) - One(r \in U) + One(r \in V) /\ Cardinality(V) \in Nat
  <2>1. IsFiniteSet(U) /\ U \ {r} = V \ {r}
    BY <1>1, <1>2
  <2> QED BY <2>1, OneMoved
<1>7. Cardinality(B) = Cardinality(A) - One(r \in A) + One(r \in B) /\ Cardinality(B) \in Nat
  BY <1>1, <1>2, OneMoved
<1>5. /\ One(r \in U) = One(Uses(req[r], c, h)) /\ One(r \in V) = One(Uses(q, c, h))
      /\ One(r \in A) = One(Answers(req[r], c, h)) /\ One(r \in B) = One(Answers(q, c, h))
  BY <1>1 DEF One
<1>6. Cardinality(Using(c, h))' = Cardinality(V) /\ Cardinality(Answering(c, h))' = Cardinality(B)
  BY <1>3
<1> QED BY <1>3, <1>4, <1>5, <1>6, <1>7

\* The references of a snapshot after such a step.
LEMMA ReferencedMoves ==
  ASSUME NEW r, NEW q, Moves(r, q), NEW c, NEW h
  PROVE  /\ Referenced(c, h) \in Nat /\ Referenced(c, h)' \in Nat
         /\ Referenced(c, h)' = Referenced(c, h) - One(h \in held[c]) + One(h \in held'[c])
              - One(Uses(req[r], c, h)) + One(Uses(q, c, h))
              - One(Answers(req[r], c, h)) + One(Answers(q, c, h))
<1>1. /\ Cardinality(Using(c, h))' =
              Cardinality(Using(c, h)) - One(Uses(req[r], c, h)) + One(Uses(q, c, h))
      /\ Cardinality(Answering(c, h))' =
              Cardinality(Answering(c, h)) - One(Answers(req[r], c, h)) + One(Answers(q, c, h))
      /\ Cardinality(Using(c, h))' \in Nat /\ Cardinality(Answering(c, h))' \in Nat
  BY ReferencesMove
<1>2. Cardinality(Using(c, h)) \in Nat /\ Cardinality(Answering(c, h)) \in Nat
  BY UsingSets
<1>3. Referenced(c, h) = One(h \in held[c]) + Cardinality(Using(c, h)) + Cardinality(Answering(c, h))
  BY DEF Referenced, One
<1>4. Referenced(c, h)' = One(h \in held'[c]) + Cardinality(Using(c, h))' + Cardinality(Answering(c, h))'
  BY DEF Referenced, One
<1>5. One(h \in held[c]) \in 0..1 /\ One(h \in held'[c]) \in 0..1
  BY DEF One
<1>6. /\ One(Uses(req[r], c, h)) \in 0..1 /\ One(Uses(q, c, h)) \in 0..1
      /\ One(Answers(req[r], c, h)) \in 0..1 /\ One(Answers(q, c, h)) \in 0..1
  BY DEF One
<1> HIDE DEF Referenced
<1> QED BY <1>1, <1>2, <1>3, <1>4, <1>5, <1>6

LEMMA PromisedMoves ==
  ASSUME NEW r, NEW q, Moves(r, q), NEW c, NEW h
  PROVE  /\ Promised(c, h) \in Nat
         /\ Promised(c, h)' = Promised(c, h) - One(h \in held[c]) + One(h \in held'[c])
              - One(Answers(req[r], c, h)) + One(Answers(q, c, h))
<1>1. /\ Cardinality(Answering(c, h))' =
              Cardinality(Answering(c, h)) - One(Answers(req[r], c, h)) + One(Answers(q, c, h))
      /\ Cardinality(Answering(c, h))' \in Nat
  BY ReferencesMove
<1>2. Cardinality(Answering(c, h)) \in Nat
  BY UsingSets
<1>3. Promised(c, h) = One(h \in held[c]) + Cardinality(Answering(c, h))
  BY DEF Promised, One
<1>4. Promised(c, h)' = One(h \in held'[c]) + Cardinality(Answering(c, h))'
  BY DEF Promised, One
<1>5. One(h \in held[c]) \in 0..1 /\ One(h \in held'[c]) \in 0..1
  BY DEF One
<1>6. One(Answers(req[r], c, h)) \in 0..1 /\ One(Answers(q, c, h)) \in 0..1
  BY DEF One
<1> HIDE DEF Promised
<1> QED BY <1>1, <1>2, <1>3, <1>4, <1>5, <1>6

\* Counts of references are exact while the client is connected, and enough afterwards.
LEMMA Exactly == HandlesExact <=> \A c \in Clients, h \in Handles : conn[c] = "open" => sd[c][h].refCount = Referenced(c, h)
BY DEF HandlesExact, Referenced

LEMMA ExactlyNext ==
  HandlesExact' <=> \A c \in Clients, h \in Handles : conn'[c] = "open" => sd'[c][h].refCount = Referenced(c, h)'
BY DEF HandlesExact, Referenced

\* The requests that wait for an answer, and those that are about to create a program.
LEMMA Waiting ==
  /\ IsFiniteSet(Unanswered) /\ Cardinality(Unanswered) \in Nat
  /\ IsFiniteSet(ToCreate) /\ Cardinality(ToCreate) \in Nat
  /\ IsFiniteSet(Entries) /\ Cardinality(Entries) \in Nat
  /\ IsFiniteSet(InProgress) /\ Cardinality(InProgress) \in Nat
  /\ Cardinality(Unanswered) <= Cardinality(InProgress)
<1> USE Constants
<1>1. Unanswered \in SUBSET Requests /\ ToCreate \in SUBSET Requests /\ InProgress \in SUBSET Requests
  BY DEF Unanswered, ToCreate, InProgress
<1>2. IsFiniteSet(Unanswered) /\ IsFiniteSet(ToCreate) /\ IsFiniteSet(InProgress)
  BY <1>1, FS_Subset
<1>3. IsFiniteSet(Clients \X Handles)
  BY FS_Product
<1>4. Entries \in SUBSET (Clients \X Handles)
  BY DEF Entries
<1>5. IsFiniteSet(Entries)
  BY <1>3, <1>4, FS_Subset
<1>6. Unanswered \in SUBSET InProgress
  BY DEF Unanswered, InProgress
<1>7. Cardinality(Unanswered) <= Cardinality(InProgress)
  BY <1>2, <1>6, FS_Subset
<1> QED BY <1>2, <1>5, <1>7, FS_CardinalityType

Waits(q) == q.pc \notin {"idle", "done"}
Creates(q) == q.pc \in {"ready", "building"} /\ "create" \in q.ask.ops

LEMMA WaitingMoves ==
  ASSUME NEW r, NEW q, Moves(r, q)
  PROVE  /\ Cardinality(Unanswered)' = Cardinality(Unanswered) - One(Waits(req[r])) + One(Waits(q))
         /\ Cardinality(ToCreate)' = Cardinality(ToCreate) - One(Creates(req[r])) + One(Creates(q))
         /\ Cardinality(Unanswered)' \in Nat /\ Cardinality(ToCreate)' \in Nat
<1> DEFINE U == Unanswered
           V == {x \in Requests : Waits(req'[x])}
           C == ToCreate
           D == {x \in Requests : Creates(req'[x])}
<1>1. U = {x \in Requests : Waits(req[x])} /\ C = {x \in Requests : Creates(req[x])}
  BY DEF Unanswered, ToCreate, Waits, Creates
<1>2. Unanswered' = V /\ ToCreate' = D
  BY DEF Unanswered, ToCreate, Waits, Creates
<1>3. /\ U \ {r} = V \ {r} /\ (r \in U <=> Waits(req[r])) /\ (r \in V <=> Waits(q))
      /\ C \ {r} = D \ {r} /\ (r \in C <=> Creates(req[r])) /\ (r \in D <=> Creates(q))
  BY <1>1, Moving
<1>4. IsFiniteSet(U) /\ IsFiniteSet(C)
  BY Waiting
<1>8. Cardinality(Unanswered) = Cardinality(U) /\ Cardinality(ToCreate) = Cardinality(C)
  OBVIOUS
<1> HIDE DEF U, V, C, D
<1>5. Cardinality(V) = Cardinality(U) - One(r \in U) + One(r \in V) /\ Cardinality(V) \in Nat
  <2>1. IsFiniteSet(U) /\ U \ {r} = V \ {r}
    BY <1>3, <1>4
  <2> QED BY <2>1, OneMoved
<1>9. Cardinality(D) = Cardinality(C) - One(r \in C) + One(r \in D) /\ Cardinality(D) \in Nat
  BY <1>3, <1>4, OneMoved
<1>6. /\ One(r \in U) = One(Waits(req[r])) /\ One(r \in V) = One(Waits(q))
      /\ One(r \in C) = One(Creates(req[r])) /\ One(r \in D) = One(Creates(q))
  BY <1>3 DEF One
<1>7. Cardinality(Unanswered)' = Cardinality(V) /\ Cardinality(ToCreate)' = Cardinality(D)
  BY <1>2
<1> QED BY <1>5, <1>6, <1>7, <1>8, <1>9

\* Registering one snapshot adds one entry; nothing else does.
EntryMoved(c, h, e) ==
  /\ sd' \in [Clients -> [Handles -> Entry]] /\ sd'[c][h] = e
  /\ \A d \in Clients, k \in Handles : d # c \/ k # h => sd'[d][k] = sd[d][k]
  /\ Cardinality(Entries)' = Cardinality(Entries) - One(sd[c][h].refCount > 0) + One(e.refCount > 0)
  /\ Cardinality(Entries)' \in Nat

LEMMA EntriesMove ==
  ASSUME TypeOK, NEW c \in Clients, NEW h \in Handles, NEW e \in Entry,
         sd' = [sd EXCEPT ![c][h] = e]
  PROVE  EntryMoved(c, h, e)
<1>1. sd \in [Clients -> [Handles -> Entry]]
  BY DEF TypeOK
<1>2. sd' \in [Clients -> [Handles -> Entry]]
  BY <1>1
<1>3. sd'[c][h] = e
  BY <1>1
<1>4. \A d \in Clients, k \in Handles : d # c \/ k # h => sd'[d][k] = sd[d][k]
  BY <1>1
<1> DEFINE S == Entries
           T == {x \in Clients \X Handles : sd'[x[1]][x[2]].refCount > 0}
           p == <<c, h>>
<1>5. Entries' = T
  BY DEF Entries
<1>6. p \in Clients \X Handles /\ p[1] = c /\ p[2] = h
  OBVIOUS
<1>7. \A x \in Clients \X Handles : x # p => x[1] # c \/ x[2] # h
  OBVIOUS
<1>8. S \ {p} = T \ {p}
  BY <1>4, <1>7 DEF Entries
<1>9. (p \in S <=> sd[c][h].refCount > 0) /\ (p \in T <=> e.refCount > 0)
  BY <1>3, <1>6 DEF Entries
<1>10. IsFiniteSet(S)
  BY Waiting
<1> HIDE DEF S, T, p
<1>11. Cardinality(T) = Cardinality(S) - One(p \in S) + One(p \in T) /\ Cardinality(T) \in Nat
  BY <1>8, <1>10, OneMoved
<1>12. One(p \in S) = One(sd[c][h].refCount > 0) /\ One(p \in T) = One(e.refCount > 0)
  BY <1>9 DEF One
<1>13. Cardinality(Entries)' = Cardinality(T)
  BY <1>5
<1> QED BY <1>2, <1>3, <1>4, <1>11, <1>12, <1>13 DEF S, EntryMoved

\* registerSnapshot finds a handle that nobody has or uses.
LEMMA FreshHandle ==
  ASSUME IInv, NEW r \in Requests, Waits(req[r]), NEW c \in Clients, NEW h, h = FreeHandle(c)
  PROVE  h \in Handles /\ sd[c][h].refCount = 0 /\ Referenced(c, h) = 0
<1> USE Constants
<1>1. Cardinality(Entries) < MaxHandles
  <2>1. r \in Unanswered
    BY DEF Unanswered, Waits
  <2>2. Cardinality(Unanswered) # 0
    BY <2>1, Waiting, FS_EmptySet
  <2> QED BY <2>2, Waiting DEF IInv, Room
<1>2. Handles \ InMap(c) # {}
  <2> SUFFICES ASSUME Handles \subseteq InMap(c)
               PROVE  FALSE
    OBVIOUS
  <2>1. {c} \X Handles \in SUBSET Entries
    BY DEF Entries, InMap
  <2>4. IsFiniteSet({c}) /\ Cardinality({c}) = 1
    BY FS_Singleton
  <2>5. Cardinality({c} \X Handles) = 1 * MaxHandles
    BY <2>4, FS_Product
  <2>2. Cardinality({c} \X Handles) = MaxHandles
    BY <2>5
  <2>3. Cardinality({c} \X Handles) <= Cardinality(Entries)
    BY <2>1, Waiting, FS_Subset
  <2> QED BY <1>1, <2>2, <2>3, Waiting
<1>3. h \in Handles \ InMap(c)
  BY <1>2 DEF FreeHandle
<1>4. sd[c][h].refCount \in Nat /\ ~(sd[c][h].refCount > 0)
  BY <1>3 DEF InMap, IInv, TypeOK, Entry
<1>5. Referenced(c, h) \in Nat /\ sd[c][h].refCount >= Referenced(c, h)
  <2>1. Referenced(c, h) \in Nat
    BY UsingSets DEF Referenced
  <2> QED BY <1>3, <2>1 DEF IInv, ReferencesKept
<1> QED BY <1>3, <1>4, <1>5

-----------------------------------------------------------------------------
(* The frame of a step.                                                         *)

Record == [pc : {"idle", "ready", "building", "adopted", "deriving", "done"},
           client : Clients \cup {None}, base : Handles \cup {None}, ask : Ask, opens : Opens,
           flushed : BOOLEAN, created : SUBSET Ids, snapshot : Snapshot,
           handle : Handles \cup {None}]

LEMMA Typed ==
  ASSUME TypeOK
  PROVE  /\ canon \in Snapshot
         /\ open \in BOOLEAN /\ pending \in BOOLEAN /\ overlay \in BOOLEAN
         /\ own \in [Clients -> [project : BOOLEAN, file : BOOLEAN, progs : SUBSET Ids]]
         /\ sd \in [Clients -> [Handles -> Entry]]
         /\ \A c \in Clients, h \in Handles : sd[c][h] \in Entry
         /\ req \in [Requests -> Record] /\ DOMAIN req = Requests
         /\ \A r \in Requests : req[r] \in Record
BY DEF TypeOK, Record

LEMMA Idle ==
  /\ NoRequest \in Record /\ NoRequest.pc = "idle" /\ NoRequest.client = None /\ NoRequest.base = None
  /\ NoRequest.ask = [ops |-> {}, remove |-> {}] /\ NoRequest.handle = None
  /\ NoRequest.created = {} /\ NoRequest.opens = NoOpens /\ NoRequest.snapshot = Empty
<1>1. [ops |-> {}, remove |-> {}] \in Ask
  BY DEF Ask
<1> QED BY <1>1, Records DEF NoRequest, Record

\* What a request must be after its own step, and what the step must leave to the others.
Lawful(q, r) ==
  /\ q.pc # "idle" => q.client \in Clients /\ conn[q.client] \in {"open", "closing"}
  /\ q.pc \in Updating => /\ lsMu'[q.client] = r /\ q.base = None
                          /\ Agrees(q.ask.ops, q.opens, own'[q.client])
                          /\ q.ask.remove \subseteq own'[q.client].progs
  /\ q.pc # "done" => q.handle = None
  /\ q.pc = "adopted" => Sound(q.snapshot, q.opens)

Stays(r) == \A x \in Requests \ {r} :
              req[x].pc \in Updating => lsMu'[req[x].client] = x /\ own'[req[x].client] = own[req[x].client]

LEMMA RequestSteps ==
  ASSUME RequestsOk, Agreed, SnapshotsSound, NEW r, NEW q, Moves(r, q), conn' = conn,
         Lawful(q, r), Stays(r),
         \A c \in Clients, h \in Handles : Sound(sd'[c][h].snapshot, sd'[c][h].opens)
  PROVE  RequestsOk' /\ Agreed' /\ SnapshotsSound'
<1>1. r \in Requests /\ req'[r] = q /\ \A x \in Requests \ {r} : req'[x] = req[x]
  BY Moving
<1>2. ASSUME NEW x \in Requests PROVE RequestOf(req[x], x)'
  <2>1. CASE x = r
    BY <1>1, <2>1 DEF Lawful, RequestOf
  <2>2. CASE x # r
    <3>1. req'[x] = req[x] /\ RequestOf(req[x], x)
      BY <1>1, <2>2 DEF RequestsOk
    <3> QED BY <3>1, <2>2 DEF RequestOf, Stays
  <2> QED BY <2>1, <2>2
<1>3. ASSUME NEW x \in Requests, req'[x].pc \in Updating PROVE AgreedOf(req[x])'
  <2>1. CASE x = r
    BY <1>1, <1>3, <2>1 DEF Lawful, AgreedOf
  <2>2. CASE x # r
    <3>1. req'[x] = req[x] /\ AgreedOf(req[x]) /\ own'[req[x].client] = own[req[x].client]
      BY <1>1, <1>3, <2>2 DEF Agreed, Stays
    <3> QED BY <3>1 DEF AgreedOf
  <2> QED BY <2>1, <2>2
<1>4. ASSUME NEW x \in Requests, req'[x].pc = "adopted" PROVE Sound(req'[x].snapshot, req'[x].opens)
  BY <1>1, <1>4 DEF Lawful, SnapshotsSound
<1>5. RequestsOk'
  BY <1>2 DEF RequestsOk
<1>6. Agreed'
  BY <1>3 DEF Agreed
<1>7. SnapshotsSound'
  BY <1>4 DEF SnapshotsSound, Sound
<1> QED BY <1>5, <1>6, <1>7

\* Who takes or gives back one client's lock leaves the other updates alone.
LEMMA LockTaken ==
  ASSUME RequestsOk, lsMu \in [Clients -> Requests \cup {None}], NEW r \in Requests, NEW c \in Clients,
         lsMu[c] \in {None, r}, NEW v, lsMu' = [lsMu EXCEPT ![c] = v],
         \A d \in Clients \ {c} : own'[d] = own[d]
  PROVE  Stays(r) /\ lsMu'[c] = v
<1>1. ASSUME NEW x \in Requests \ {r}, req[x].pc \in Updating
      PROVE  lsMu'[req[x].client] = x /\ own'[req[x].client] = own[req[x].client]
  <2>1. req[x].client \in Clients /\ lsMu[req[x].client] = x
    BY <1>1 DEF RequestsOk, RequestOf, Updating
  <2>2. x # None
    BY Constants
  <2>3. req[x].client # c
    BY <2>1, <2>2
  <2> QED BY <2>1, <2>3
<1> QED BY <1>1 DEF Stays

LEMMA LockKept ==
  ASSUME RequestsOk, NEW r, lsMu' = lsMu, own' = own
  PROVE  Stays(r)
BY DEF RequestsOk, RequestOf, Stays

\* A reference that comes or goes is counted; for a client that has gone there may be more than
\* are needed.
Tracks(c, h) ==
  /\ sd'[c][h].refCount - Referenced(c, h)' >= sd[c][h].refCount - Referenced(c, h)
  /\ conn[c] = "open" => sd'[c][h].refCount - Referenced(c, h)' = sd[c][h].refCount - Referenced(c, h)
  /\ Promised(c, h)' <= 1

LEMMA CountsTrack ==
  ASSUME TypeOK, TypeOK', ReferencesKept, HandlesExact, conn' = conn,
         \A c \in Clients, h \in Handles : Tracks(c, h),
         \A c \in Clients : conn[c] # "open" => held'[c] = {}
  PROVE  ReferencesKept' /\ HandlesExact'
<1>1. ASSUME NEW c \in Clients, NEW h \in Handles
      PROVE  /\ sd'[c][h].refCount >= Referenced(c, h)'
             /\ conn[c] = "open" => sd'[c][h].refCount = Referenced(c, h)'
             /\ Promised(c, h)' <= 1
  <2>1. Tracks(c, h)
    BY <1>1
  <2>2. sd[c][h].refCount \in Nat /\ sd'[c][h].refCount \in Nat
    BY DEF TypeOK, Entry
  <2>3. Referenced(c, h) \in Nat
    BY UsingSets DEF Referenced
  <2>4. Referenced(c, h)' \in Nat
    <3>1. Using(c, h)' \in SUBSET Requests /\ Answering(c, h)' \in SUBSET Requests
      BY UsingSets
    <3>2. Cardinality(Using(c, h)') \in Nat /\ Cardinality(Answering(c, h)') \in Nat
      BY <3>1, FS_Subset, FS_CardinalityType, Constants
    <3> QED BY <3>2 DEF Referenced
  <2>5. sd[c][h].refCount >= Referenced(c, h) /\ (conn[c] = "open" => sd[c][h].refCount = Referenced(c, h))
    BY Exactly DEF ReferencesKept
  <2> QED BY <2>1, <2>2, <2>3, <2>4, <2>5 DEF Tracks
<1>2. ReferencesKept'
  BY <1>1 DEF ReferencesKept
<1>3. HandlesExact'
  BY <1>1, ExactlyNext
<1> QED BY <1>2, <1>3

\* There is room for what is still to come, and requests start from what they did.
LEMMA RoomMoves ==
  ASSUME Room, TypeOK', NEW r, NEW q, Moves(r, q),
         Cardinality(Entries)' + Cardinality(Unanswered)' <= MaxHandles,
         Cardinality(canon'.progs) + Cardinality(ToCreate)' <= MaxId,
         \A x \in Requests \ {r} : req[x].pc = "deriving" /\ req[x].base # None
             => sd'[req[x].client][req[x].base].snapshot = sd[req[x].client][req[x].base].snapshot,
         q.pc = "deriving" /\ "create" \in q.ask.ops =>
             Cardinality((IF q.base = None THEN Empty ELSE sd'[q.client][q.base].snapshot).progs) < MaxId
  PROVE  Room'
<1>1. r \in Requests /\ req'[r] = q /\ \A x \in Requests \ {r} : req'[x] = req[x]
  BY Moving
<1>2. ASSUME NEW x \in Requests, req'[x].pc = "deriving", "create" \in req'[x].ask.ops
      PROVE  Cardinality((IF req'[x].base = None THEN Empty
                          ELSE sd'[req'[x].client][req'[x].base].snapshot).progs) < MaxId
  <2>1. CASE x = r
    BY <1>1, <1>2, <2>1
  <2>2. CASE x # r
    <3>1. req'[x] = req[x]
      BY <1>1, <2>2
    <3>2. Cardinality((IF req[x].base = None THEN Empty
                       ELSE sd[req[x].client][req[x].base].snapshot).progs) < MaxId
      BY <1>2, <3>1 DEF Room, BaseOf
    <3>3. req[x].base # None => sd'[req[x].client][req[x].base].snapshot = sd[req[x].client][req[x].base].snapshot
      BY <1>2, <2>2, <3>1
    <3>4. CASE req[x].base = None
      BY <3>1, <3>2, <3>4
    <3>5. CASE req[x].base # None
      BY <3>1, <3>2, <3>3, <3>5
    <3> QED BY <3>4, <3>5
  <2> QED BY <2>1, <2>2
<1> QED BY <1>2 DEF Room, BaseOf

\* A step that adopts nothing and commits nothing leaves what everybody has.
LEMMA NothingAdopted ==
  ASSUME NEW r, NEW q, Moves(r, q), own' = own, req[r].pc # "adopted", q.pc # "adopted"
  PROVE  KeepsAll
<1>1. r \in Requests /\ req'[r] = q /\ \A x \in Requests \ {r} : req'[x] = req[x]
  BY Moving
<1>2. ASSUME NEW c \in Clients
      PROVE  /\ HasProject(c)' <=> HasProject(c)
             /\ HasFile(c)' <=> HasFile(c)
             /\ HasPrograms(c)' = HasPrograms(c)
  <2>1. Adopted(c)' = Adopted(c)
    BY <1>1 DEF Adopted
  <2>2. \A x \in Adopted(c) : req'[x] = req[x]
    BY <1>1 DEF Adopted
  <2> QED BY <2>1, <2>2, SameHas
<1> QED BY <1>2 DEF KeepsAll

LEMMA OthersAdopted ==
  ASSUME NEW r, NEW q, Moves(r, q), NEW c, req[r].client = c, q.pc = "idle" \/ q.client = c,
         \A d \in Clients \ {c} : own'[d] = own[d]
  PROVE  KeepsOthers(c)
<1>1. r \in Requests /\ req'[r] = q /\ \A x \in Requests \ {r} : req'[x] = req[x]
  BY Moving
<1>2. ASSUME NEW d \in Clients \ {c}
      PROVE  /\ HasProject(d)' <=> HasProject(d)
             /\ HasFile(d)' <=> HasFile(d)
             /\ HasPrograms(d)' = HasPrograms(d)
  <2>1. Adopted(d)' = Adopted(d)
    BY <1>1 DEF Adopted
  <2>2. \A x \in Adopted(d) : req'[x] = req[x]
    BY <1>1 DEF Adopted
  <2> QED BY <2>1, <2>2, SameHas
<1> QED BY <1>2 DEF KeepsOthers

-----------------------------------------------------------------------------
(* The editor.                                                                  *)

LEMMA EditorSteps ==
  ASSUME IInv, UNCHANGED <<updateMu, conn, own, lsMu, sd, held, req, crashed>>,
         open' \in BOOLEAN, pending' \in BOOLEAN, overlay' \in BOOLEAN,
         canon' \in Snapshot, CanonSound',
         canon'.count = canon.count, canon'.files = canon.files, canon'.progs = canon.progs
  PROVE  IInv'
<1>1. TypeOK'
  BY DEF IInv, TypeOK
<1>2. RequestsOk'
  BY DEF IInv, RequestsOk, RequestOf
<1>3. Agreed'
  BY DEF IInv, Agreed, AgreedOf
<1>4. SnapshotsSound'
  BY DEF IInv, SnapshotsSound, Sound
<1>5. KeepsAll
  <2>1. ASSUME NEW c \in Clients
        PROVE  /\ HasProject(c)' <=> HasProject(c)
               /\ HasFile(c)' <=> HasFile(c)
               /\ HasPrograms(c)' = HasPrograms(c)
    <3>1. Adopted(c)' = Adopted(c)
      BY DEF Adopted
    <3> QED BY <3>1, SameHas
  <2> QED BY <2>1 DEF KeepsAll
<1>6. OpensCounted' /\ ProgramsOwned'
  BY <1>5, CountsKept DEF IInv
<1>7. ASSUME NEW c \in Clients, NEW h \in Handles
      PROVE  Referenced(c, h)' = Referenced(c, h) /\ Promised(c, h)' = Promised(c, h)
  BY DEF Referenced, Promised, Using, Answering, InProgress
<1>8. ReferencesKept' /\ HandlesExact'
  <2>1. ReferencesKept'
    BY <1>7 DEF IInv, ReferencesKept
  <2>2. HandlesExact'
    BY <1>7, Exactly, ExactlyNext DEF IInv
  <2> QED BY <2>1, <2>2
<1>9. Room'
  BY DEF IInv, Room, Entries, Unanswered, ToCreate, BaseOf
<1> QED BY <1>1, <1>2, <1>3, <1>4, <1>6, <1>8, <1>9 DEF IInv

LEMMA OpenFileSteps == ASSUME IInv, OpenFile PROVE IInv'
<1> DEFINE s == [canon EXCEPT !.overlay = TRUE, !.loaded = TRUE]
<1>1. canon \in Snapshot /\ CanonSound
  BY Typed DEF IInv
<1>2. /\ s \in Snapshot /\ s.overlay /\ s.loaded /\ s.count = canon.count /\ s.files = canon.files
      /\ s.progs = canon.progs /\ s.broken = canon.broken
  BY <1>1 DEF Snapshot
<1>3. canon' = Cleanup(s) /\ overlay' = TRUE /\ open' = TRUE /\ pending' = FALSE
  BY DEF OpenFile
<1> HIDE DEF s
<1>4. /\ canon' \in Snapshot /\ canon'.count = canon.count /\ canon'.files = canon.files
      /\ canon'.progs = canon.progs /\ canon'.broken = canon.broken /\ canon'.overlay
      /\ Needed(canon') => canon'.loaded
  BY <1>2, <1>3, CleaningUp
<1>5. CanonSound'
  BY <1>1, <1>4 DEF CanonSound
<1> QED BY <1>3, <1>4, <1>5, EditorSteps DEF OpenFile

LEMMA CloseFileSteps == ASSUME IInv, CloseFile PROVE IInv'
<1>1. canon \in Snapshot /\ CanonSound /\ overlay \in BOOLEAN
  BY Typed DEF IInv
<1>2. canon' = canon /\ overlay' = overlay /\ open' = FALSE /\ pending' = TRUE
  BY DEF CloseFile
<1>3. CanonSound'
  BY <1>1, <1>2 DEF CanonSound
<1> QED BY <1>1, <1>2, <1>3, EditorSteps DEF CloseFile

\* Processing what is pending closes the file or leaves it alone.
LEMMA Processing ==
  ASSUME TypeOK
  PROVE  /\ Processed \in BOOLEAN /\ (Processed => overlay)
         /\ Flush => overlay' = Processed /\ open' \in BOOLEAN /\ pending' \in BOOLEAN
<1>1. open \in BOOLEAN /\ pending \in BOOLEAN /\ overlay \in BOOLEAN
  BY Typed
<1> QED BY <1>1 DEF Processed, Flush

\* What is built from the overlays is sound.
LEMMA Flushing ==
  ASSUME IInv, NEW o \in BOOLEAN, o => overlay
  PROVE  /\ Flushed(canon, o) \in Snapshot /\ Flushed(canon, o).overlay = o
         /\ Flushed(canon, o).count = canon.count /\ Flushed(canon, o).files = canon.files
         /\ Flushed(canon, o).progs = canon.progs /\ Flushed(canon, o).broken = canon.broken
         /\ Needed(Flushed(canon, o)) => Flushed(canon, o).loaded
<1>1. canon \in Snapshot /\ CanonSound /\ overlay \in BOOLEAN
  BY Typed DEF IInv
<1>2. /\ Flushed(canon, o) \in Snapshot /\ Flushed(canon, o).overlay = o
      /\ Flushed(canon, o).count = canon.count /\ Flushed(canon, o).files = canon.files
      /\ Flushed(canon, o).progs = canon.progs /\ Flushed(canon, o).broken = canon.broken
      /\ Flushed(canon, o).loaded = canon.loaded
  BY <1>1 DEF Flushed, Snapshot
<1>3. Needed(Flushed(canon, o)) => Needed(canon)
  BY <1>1, <1>2 DEF Needed, CanonSound
<1> QED BY <1>1, <1>2, <1>3 DEF CanonSound

LEMMA ScheduledUpdateSteps == ASSUME IInv, ScheduledUpdate PROVE IInv'
<1> PICK o : o = Processed
  OBVIOUS
<1> PICK s : s = Flushed(canon, o)
  OBVIOUS
<1>1. CanonSound /\ o \in BOOLEAN /\ (o => overlay)
  BY Processing DEF IInv
<1>2. /\ s \in Snapshot /\ s.overlay = o /\ s.count = canon.count /\ s.files = canon.files
      /\ s.progs = canon.progs /\ s.broken = canon.broken /\ (Needed(s) => s.loaded)
  BY <1>1, Flushing
<1>3. canon' = s /\ overlay' = o /\ open' \in BOOLEAN /\ pending' \in BOOLEAN
  BY Processing DEF ScheduledUpdate, IInv
<1>4. CanonSound'
  BY <1>1, <1>2, <1>3 DEF CanonSound
<1> QED BY <1>1, <1>2, <1>3, <1>4, EditorSteps DEF ScheduledUpdate

LEMMA IdleCleanSteps == ASSUME IInv, IdleClean PROVE IInv'
<1> PICK o : o = Processed
  OBVIOUS
<1> PICK s : s = Flushed(canon, o)
  OBVIOUS
<1>1. CanonSound /\ o \in BOOLEAN /\ (o => overlay)
  BY Processing DEF IInv
<1>2. /\ s \in Snapshot /\ s.overlay = o /\ s.count = canon.count /\ s.files = canon.files
      /\ s.progs = canon.progs /\ s.broken = canon.broken /\ (Needed(s) => s.loaded)
  BY <1>1, Flushing
<1>3. canon' = Cleanup(s) /\ overlay' = o /\ open' \in BOOLEAN /\ pending' \in BOOLEAN
  BY Processing DEF IdleClean, IInv
<1>4. /\ canon' \in Snapshot /\ canon'.count = canon.count /\ canon'.files = canon.files
      /\ canon'.progs = canon.progs /\ canon'.broken = canon.broken /\ canon'.overlay = o
      /\ Needed(canon') => canon'.loaded
  BY <1>2, <1>3, CleaningUp
<1>5. CanonSound'
  BY <1>1, <1>3, <1>4 DEF CanonSound
<1> QED BY <1>1, <1>3, <1>4, <1>5, EditorSteps DEF IdleClean

LEMMA AutoImportsSteps == ASSUME IInv, AutoImports PROVE IInv'
<1>1. canon \in Snapshot /\ CanonSound /\ open \in BOOLEAN /\ pending \in BOOLEAN /\ overlay \in BOOLEAN
  BY Typed DEF IInv
<1>2. PICK broken \in SUBSET canon.progs : canon' = [canon EXCEPT !.broken = broken]
  BY DEF AutoImports
<1>3. /\ canon' \in Snapshot /\ canon'.count = canon.count /\ canon'.files = canon.files
      /\ canon'.progs = canon.progs /\ canon'.broken = broken /\ canon'.overlay = canon.overlay
      /\ canon'.loaded = canon.loaded
  BY <1>1, <1>2 DEF Snapshot
<1>4. CanonSound'
  BY <1>1, <1>3 DEF CanonSound, Needed, AutoImports
<1> QED BY <1>1, <1>3, <1>4, EditorSteps DEF AutoImports

-----------------------------------------------------------------------------
(* Updates of the server's snapshot.                                            *)

\* A request without a base or an answer refers to nothing; nothing else moves.
LEMMA NoReferences ==
  ASSUME NEW r, NEW q, Moves(r, q), NEW c \in Clients, NEW h \in Handles,
         req[r].pc = "idle" \/ (req[r].base = None /\ req[r].handle = None),
         q.pc = "idle" \/ (q.base = None /\ q.handle = None)
  PROVE  /\ Referenced(c, h)' = Referenced(c, h) - One(h \in held[c]) + One(h \in held'[c])
         /\ Promised(c, h)' = Promised(c, h) - One(h \in held[c]) + One(h \in held'[c])
         /\ Referenced(c, h) \in Nat /\ Referenced(c, h)' \in Nat /\ Promised(c, h) \in Nat
<1>1. ~Uses(req[r], c, h) /\ ~Uses(q, c, h) /\ ~Answers(req[r], c, h) /\ ~Answers(q, c, h)
  BY Constants DEF Uses, Answers
<1>2. One(h \in held[c]) \in 0..1 /\ One(h \in held'[c]) \in 0..1
  BY DEF One
<1>3. /\ One(Uses(req[r], c, h)) = 0 /\ One(Uses(q, c, h)) = 0
      /\ One(Answers(req[r], c, h)) = 0 /\ One(Answers(q, c, h)) = 0
  BY <1>1 DEF One
<1>4. /\ Referenced(c, h)' = Referenced(c, h) - One(h \in held[c]) + One(h \in held'[c])
      /\ Referenced(c, h) \in Nat /\ Referenced(c, h)' \in Nat
  BY <1>2, <1>3, ReferencedMoves
<1>5. /\ Promised(c, h)' = Promised(c, h) - One(h \in held[c]) + One(h \in held'[c])
      /\ Promised(c, h) \in Nat
  BY <1>2, <1>3, PromisedMoves
<1> QED BY <1>4, <1>5

LEMMA NothingTracked ==
  ASSUME TypeOK, TypeOK', ReferencesKept, HandlesExact, NEW r, NEW q, Moves(r, q),
         req[r].pc = "idle" \/ (req[r].base = None /\ req[r].handle = None),
         q.pc = "idle" \/ (q.base = None /\ q.handle = None),
         conn' = conn, held' = held, sd' = sd
  PROVE  ReferencesKept' /\ HandlesExact'
<1>1. ASSUME NEW c \in Clients, NEW h \in Handles PROVE Tracks(c, h)
  <2>1. Referenced(c, h)' = Referenced(c, h) - One(h \in held[c]) + One(h \in held[c])
        /\ Promised(c, h)' = Promised(c, h) - One(h \in held[c]) + One(h \in held[c])
        /\ Referenced(c, h) \in Nat /\ Referenced(c, h)' \in Nat /\ Promised(c, h) \in Nat
    BY NoReferences
  <2>2. One(h \in held[c]) \in 0..1
    BY DEF One
  <2>3. sd[c][h].refCount \in Nat
    BY Typed DEF Entry
  <2>4. Promised(c, h) <= 1
    BY DEF ReferencesKept
  <2> HIDE DEF Referenced, Promised
  <2> QED BY <2>1, <2>2, <2>3, <2>4 DEF Tracks
<1>2. \A c \in Clients : conn[c] # "open" => held'[c] = {}
  BY DEF ReferencesKept
<1> QED BY <1>1, <1>2, CountsTrack

\* The requests that are under way to create a program are counted among those in progress.
LEMMA ToCreateCounted == Cardinality(ToCreate) <= Cardinality(Creating) /\ Cardinality(Creating) \in Nat
<1>1. ToCreate \in SUBSET Creating /\ Creating \in SUBSET Requests
  BY DEF ToCreate, Creating, InProgress
<1>2. IsFiniteSet(Creating)
  BY <1>1, FS_Subset, Constants
<1> QED BY <1>1, <1>2, FS_Subset, FS_CardinalityType

LEMMA BeginUpdateSteps ==
  ASSUME IInv, NEW r \in Requests, NEW c \in Clients, NEW ask \in UpdateAsks, BeginUpdate(r, c, ask)
  PROVE  IInv'
<1> DEFINE new == [ops |-> Reconciled(ask.ops, OwnOpens(c)), remove |-> ask.remove \cap Owned(c)]
<1>0. /\ TypeOK /\ RequestsOk /\ Agreed /\ SnapshotsSound /\ CanonSound /\ OpensCounted /\ ProgramsOwned
      /\ ReferencesKept /\ HandlesExact /\ Room
  BY DEF IInv
<1>1. PICK q : q = [NoRequest EXCEPT !.pc = "ready", !.client = c,
                                     !.opens = OpenState(ask.ops, OwnOpens(c)), !.ask = new]
  OBVIOUS
<1>2. /\ req[r].pc = "idle" /\ conn[c] = "open" /\ Within(canon, ask) /\ lsMu[c] = None
      /\ lsMu' = [lsMu EXCEPT ![c] = r] /\ req' = [req EXCEPT ![r] = q]
      /\ UNCHANGED <<canon, open, pending, overlay, updateMu, conn, own, sd, held, crashed>>
  BY <1>1 DEF BeginUpdate
<1>3. ask.ops \in SUBSET Ops /\ ask.remove \in SUBSET Ids
  BY AskShape DEF Ask
<1>4. OwnOpens(c) \in Opens /\ OwnOpens(c).project = own[c].project /\ OwnOpens(c).file = own[c].file
  BY <1>0, Typed DEF OwnOpens, Opens
<1>5. /\ new.ops \subseteq Ops /\ OpenState(ask.ops, OwnOpens(c)) \in Opens
      /\ "create" \in new.ops <=> "create" \in ask.ops
      /\ Agrees(new.ops, OpenState(ask.ops, OwnOpens(c)), OwnOpens(c))
      /\ new.remove \subseteq own[c].progs /\ new \in Ask
  <2>1. new.ops = Reconciled(ask.ops, OwnOpens(c)) /\ new.remove = ask.remove \cap own[c].progs
    BY DEF Owned
  <2>2. /\ Reconciled(ask.ops, OwnOpens(c)) \subseteq Ops /\ OpenState(ask.ops, OwnOpens(c)) \in Opens
        /\ "create" \in Reconciled(ask.ops, OwnOpens(c)) <=> "create" \in ask.ops
        /\ Agrees(Reconciled(ask.ops, OwnOpens(c)), OpenState(ask.ops, OwnOpens(c)), OwnOpens(c))
    BY <1>3, <1>4, Reconciling
  <2>3. new \in Ask
    BY <1>3, <2>1, <2>2 DEF Ask
  <2> HIDE DEF new
  <2> QED BY <2>1, <2>2, <2>3
<1> HIDE DEF new
<1>6. /\ q \in Record /\ q.pc = "ready" /\ q.client = c /\ q.base = None /\ q.handle = None
      /\ q.opens = OpenState(ask.ops, OwnOpens(c)) /\ q.ask = new
  BY <1>1, <1>5, Idle DEF Record
<1>7. Moves(r, q)
  BY <1>0, <1>2, Typed DEF Moves
<1>8. TypeOK'
  <2>1. req' \in [Requests -> Record]
    BY <1>0, <1>2, <1>6, Typed
  <2>2. lsMu' \in [Clients -> Requests \cup {None}]
    BY <1>0, <1>2 DEF TypeOK
  <2> QED BY <1>0, <1>2, <2>1, <2>2 DEF TypeOK, Record
<1>9. Stays(r) /\ lsMu'[c] = r
  <2>1. lsMu \in [Clients -> Requests \cup {None}]
    BY <1>0 DEF TypeOK
  <2> QED BY <1>0, <1>2, <2>1, LockTaken
<1>10. Lawful(q, r)
  <2>1. Agrees(q.ask.ops, q.opens, own'[c])
    BY <1>2, <1>4, <1>5, <1>6 DEF Agrees
  <2> QED BY <1>2, <1>5, <1>6, <1>9, <2>1 DEF Lawful
<1>11. RequestsOk' /\ Agreed' /\ SnapshotsSound'
  <2>1. \A d \in Clients, h \in Handles : Sound(sd'[d][h].snapshot, sd'[d][h].opens)
    BY <1>0, <1>2 DEF SnapshotsSound
  <2> QED BY <1>0, <1>2, <1>7, <1>9, <1>10, <2>1, RequestSteps
<1>12. OpensCounted' /\ ProgramsOwned'
  <2>1. KeepsAll
    BY <1>2, <1>6, <1>7, NothingAdopted
  <2> QED BY <1>0, <1>2, <2>1, CountsKept
<1>13. ReferencesKept' /\ HandlesExact'
  BY <1>0, <1>2, <1>6, <1>7, <1>8, NothingTracked
<1>14. Room'
  <2>1. /\ Cardinality(Unanswered)' = Cardinality(Unanswered) - One(Waits(req[r])) + One(Waits(q))
        /\ Cardinality(ToCreate)' = Cardinality(ToCreate) - One(Creates(req[r])) + One(Creates(q))
        /\ Cardinality(Unanswered)' \in Nat /\ Cardinality(ToCreate)' \in Nat
    BY <1>7, WaitingMoves
  <2>2. /\ One(Waits(req[r])) = 0 /\ One(Waits(q)) = 1 /\ One(Creates(req[r])) = 0
        /\ One(Creates(q)) = One("create" \in ask.ops)
    BY <1>2, <1>5, <1>6 DEF One, Waits, Creates
  <2>3. Cardinality(Entries)' = Cardinality(Entries)
    BY <1>2 DEF Entries
  <2>4. Cardinality(Entries) + Cardinality(InProgress) < MaxHandles
    BY <1>2 DEF Within
  <2>5. "create" \in ask.ops => Cardinality(canon.progs) + Cardinality(Creating) < MaxId
    BY <1>2 DEF Within
  <2>6. Cardinality(canon.progs) \in Nat
    BY <1>0, Typed, Constants, FS_Subset, FS_CardinalityType DEF Snapshot
  <2>7. Cardinality(Entries)' + Cardinality(Unanswered)' <= MaxHandles
    BY <2>1, <2>2, <2>3, <2>4, Waiting, Constants
  <2>8. Cardinality(canon'.progs) + Cardinality(ToCreate)' <= MaxId
    <3>1. Cardinality(canon.progs) + Cardinality(ToCreate) <= MaxId
      BY <1>0 DEF Room
    <3>2. CASE "create" \in ask.ops
      BY <1>2, <2>1, <2>2, <2>5, <2>6, <3>2, Waiting, ToCreateCounted, Constants DEF One
    <3>3. CASE "create" \notin ask.ops
      BY <1>2, <2>1, <2>2, <2>6, <3>1, <3>3, Waiting, Constants DEF One
    <3> QED BY <3>2, <3>3
  <2> QED BY <1>0, <1>2, <1>6, <1>7, <1>8, <2>7, <2>8, RoomMoves
<1>15. CanonSound'
  BY <1>0, <1>2 DEF CanonSound
<1> QED BY <1>8, <1>11, <1>12, <1>13, <1>14, <1>15 DEF IInv

LEMMA TakeUpdateSteps == ASSUME IInv, NEW r \in Requests, TakeUpdate(r) PROVE IInv'
<1>0. /\ TypeOK /\ RequestsOk /\ Agreed /\ SnapshotsSound /\ CanonSound /\ OpensCounted /\ ProgramsOwned
      /\ ReferencesKept /\ HandlesExact /\ Room
  BY DEF IInv
<1>1. PICK q : q = [req[r] EXCEPT !.pc = "building", !.flushed = pending]
  OBVIOUS
<1>2. /\ req[r].pc = "ready" /\ updateMu' = r /\ req' = [req EXCEPT ![r] = q]
      /\ UNCHANGED <<canon, conn, own, lsMu, sd, held, crashed>>
  BY <1>0, <1>1, Typed DEF TakeUpdate
<1>15. overlay' \in BOOLEAN /\ open' \in BOOLEAN /\ pending' \in BOOLEAN /\ (overlay' => overlay)
  BY <1>0, Processing DEF TakeUpdate
<1>3. req[r] \in Record /\ pending \in BOOLEAN
  BY <1>0, Typed
<1>4. /\ q \in Record /\ q.pc = "building" /\ q.client = req[r].client /\ q.base = req[r].base
      /\ q.handle = req[r].handle /\ q.opens = req[r].opens /\ q.ask = req[r].ask
  BY <1>1, <1>3 DEF Record
<1>5. Moves(r, q)
  BY <1>0, <1>2, Typed DEF Moves
<1>6. TypeOK'
  <2>1. req' \in [Requests -> Record]
    BY <1>0, <1>2, <1>4, Typed
  <2> QED BY <1>0, <1>2, <1>15, <2>1 DEF TypeOK, Record
<1>7. RequestOf(req[r], r) /\ AgreedOf(req[r])
  BY <1>0, <1>2 DEF RequestsOk, Agreed, Updating
<1>8. req[r].base = None /\ req[r].handle = None
  BY <1>2, <1>7 DEF RequestOf, Updating
<1>9. Lawful(q, r)
  BY <1>2, <1>4, <1>7 DEF Lawful, RequestOf, AgreedOf, Updating
<1>10. RequestsOk' /\ Agreed' /\ SnapshotsSound'
  <2>1. \A d \in Clients, h \in Handles : Sound(sd'[d][h].snapshot, sd'[d][h].opens)
    BY <1>0, <1>2 DEF SnapshotsSound
  <2>2. Stays(r)
    BY <1>0, <1>2, LockKept
  <2> QED BY <1>0, <1>2, <1>5, <1>9, <2>1, <2>2, RequestSteps
<1>11. OpensCounted' /\ ProgramsOwned'
  <2>1. KeepsAll
    BY <1>2, <1>4, <1>5, NothingAdopted
  <2> QED BY <1>0, <1>2, <2>1, CountsKept
<1>12. ReferencesKept' /\ HandlesExact'
  BY <1>0, <1>2, <1>4, <1>5, <1>6, <1>8, NothingTracked
<1>13. Room'
  <2>1. /\ Cardinality(Unanswered)' = Cardinality(Unanswered) - One(Waits(req[r])) + One(Waits(q))
        /\ Cardinality(ToCreate)' = Cardinality(ToCreate) - One(Creates(req[r])) + One(Creates(q))
        /\ Cardinality(Unanswered)' \in Nat /\ Cardinality(ToCreate)' \in Nat
    BY <1>5, WaitingMoves
  <2>2. /\ One(Waits(req[r])) = 1 /\ One(Waits(q)) = 1 /\ One(Creates(req[r])) = One(Creates(q))
        /\ One(Creates(q)) \in 0..1
    BY <1>2, <1>4 DEF One, Waits, Creates
  <2>3. Cardinality(Entries)' = Cardinality(Entries) /\ canon' = canon
    BY <1>2 DEF Entries
  <2>4. Cardinality(Unanswered)' = Cardinality(Unanswered) /\ Cardinality(ToCreate)' = Cardinality(ToCreate)
    BY <2>1, <2>2, Waiting
  <2> QED BY <1>0, <1>2, <1>4, <1>5, <1>6, <2>3, <2>4, RoomMoves DEF Room
<1>14. CanonSound'
  BY <1>0, <1>2, <1>15 DEF CanonSound
<1> QED BY <1>6, <1>10, <1>11, <1>12, <1>13, <1>14 DEF IInv

\* What an update makes of the server's snapshot.
Builds(c, ask, opens, u, new) ==
  /\ c \in Clients /\ Adopted(c) = {} /\ u \in Snapshot /\ Sound(u, opens)
  /\ u.count = canon.count - One(own[c].project) + One(opens.project)
  /\ u.files = canon.files - One(own[c].file) + One(opens.file)
  /\ u.overlay = overlay
  /\ u.progs = (canon.progs \ ask.remove) \cup new
  /\ u.broken = canon.broken \ ask.remove
  /\ new \subseteq Ids \ (canon.progs \ ask.remove)
  /\ Cardinality(new) <= One("create" \in ask.ops)
  /\ ask.remove \subseteq own[c].progs

LEMMA Building ==
  ASSUME IInv, NEW r \in Requests, req[r].pc = "building",
         NEW ask, ask = req[r].ask, NEW c, c = req[r].client, NEW opens, opens = req[r].opens,
         NEW u, u = Applied(Flushed(canon, overlay), ask), NEW new, new = Created(Flushed(canon, overlay), ask)
  PROVE  Builds(c, ask, opens, u, new)
<1> PICK s : s = Flushed(canon, overlay)
  OBVIOUS
<1>0. TypeOK /\ RequestsOk /\ Agreed /\ Room
  BY DEF IInv
<1>1. /\ req[r] \in Record /\ canon \in Snapshot
  BY <1>0, Typed
<1>2. opens \in Opens /\ ask \in Ask
  BY <1>1 DEF Record
<1>3. c \in Clients /\ Adopted(c) = {}
  BY <1>0, OneUpdate DEF Updating
<1>4. Agrees(ask.ops, opens, own[c]) /\ ask.remove \subseteq own[c].progs
  BY <1>0 DEF Agreed, AgreedOf, Updating
<1>5. /\ s \in Snapshot /\ s.overlay = overlay /\ s.count = canon.count /\ s.files = canon.files
      /\ s.progs = canon.progs /\ s.broken = canon.broken /\ (Needed(s) => s.loaded)
  BY <1>0, Typed, Flushing
<1>6. Sound(s, own[c])
  <2>1. (own[c].project <=> HasProject(c)) /\ (own[c].file <=> HasFile(c))
    BY <1>3, Owning
  <2> QED BY <1>3, <1>5, <2>1, CanonSoundFor
<1>7. "create" \in ask.ops => Cardinality(s.progs) < MaxId
  <2> SUFFICES ASSUME "create" \in ask.ops
               PROVE  Cardinality(canon.progs) < MaxId
    BY <1>5
  <2>1. r \in ToCreate
    BY DEF ToCreate
  <2>2. Cardinality(ToCreate) # 0
    BY <2>1, Waiting, FS_EmptySet
  <2>3. Cardinality(canon.progs) \in Nat
    BY <1>1, Constants, FS_Subset, FS_CardinalityType DEF Snapshot
  <2> QED BY <1>0, <2>2, <2>3, Waiting, Constants DEF Room
<1>8. /\ u \in Snapshot /\ Sound(u, opens)
      /\ u.count = s.count - One(own[c].project) + One(opens.project)
      /\ u.files = s.files - One(own[c].file) + One(opens.file)
      /\ u.overlay = s.overlay
      /\ u.progs = (s.progs \ ask.remove) \cup Created(s, ask)
      /\ u.broken = s.broken \ ask.remove
      /\ Created(s, ask) \subseteq Ids \ (s.progs \ ask.remove)
      /\ Cardinality(Created(s, ask)) <= One("create" \in ask.ops)
  <2>2. PICK o : o = own[c]
    OBVIOUS
  <2>3. /\ s \in Snapshot /\ ask \in Ask /\ opens \in Opens /\ Sound(s, o) /\ Agrees(ask.ops, opens, o)
        /\ "create" \in ask.ops => Cardinality(s.progs) < MaxId
        /\ u = Applied(s, ask)
    BY <1>2, <1>4, <1>5, <1>6, <1>7, <2>2
  <2>4. Results(s, ask, o, opens, u)
    BY <2>3, Applying
  <2> QED BY <2>2, <2>4 DEF Results
<1> QED BY <1>3, <1>4, <1>5, <1>8 DEF Builds

\* A refused request leaves everything but the overlays alone.
LEMMA Refusing ==
  ASSUME IInv, NEW flushed, NEW o \in BOOLEAN, o => overlay
  PROVE  /\ Refused(flushed, o) \in Snapshot /\ (o => Refused(flushed, o).overlay)
         /\ Refused(flushed, o).count = canon.count /\ Refused(flushed, o).files = canon.files
         /\ Refused(flushed, o).progs = canon.progs /\ Refused(flushed, o).broken = canon.broken
         /\ Needed(Refused(flushed, o)) => Refused(flushed, o).loaded
<1>1. canon \in Snapshot /\ CanonSound
  BY Typed DEF IInv
<1>2. CASE Refused(flushed, o) = canon
  BY <1>1, <1>2 DEF CanonSound
<1>3. CASE Refused(flushed, o) = Flushed(canon, o)
  BY <1>3, Flushing
<1> QED BY <1>2, <1>3 DEF Refused

\* The update is refused: its client has what it had.
LEMMA RefusedSteps ==
  ASSUME IInv, NEW r \in Requests, req[r].pc = "building", updateMu' = None,
         NEW flushed, canon' = Refused(flushed, overlay), req' = [req EXCEPT ![r] = NoRequest],
         lsMu' = [lsMu EXCEPT ![req[r].client] = None],
         UNCHANGED <<open, pending, overlay, conn, own, sd, held, crashed>>
  PROVE  IInv'
<1>0. /\ TypeOK /\ RequestsOk /\ Agreed /\ SnapshotsSound /\ CanonSound /\ OpensCounted /\ ProgramsOwned
      /\ ReferencesKept /\ HandlesExact /\ Room
  BY DEF IInv
<1>1. PICK q : q = NoRequest
  OBVIOUS
<1>2. q \in Record /\ q.pc = "idle" /\ q.handle = None
  BY <1>1, Idle
<1>3. Moves(r, q) /\ req[r].base = None /\ req[r].handle = None /\ req[r].client \in Clients
      /\ lsMu[req[r].client] = r
  BY <1>0, <1>1, Typed DEF Moves, RequestsOk, RequestOf, Updating
<1>4. /\ canon' \in Snapshot /\ (overlay => canon'.overlay) /\ canon'.count = canon.count
      /\ canon'.files = canon.files /\ canon'.progs = canon.progs /\ canon'.broken = canon.broken
      /\ Needed(canon') => canon'.loaded
  BY <1>0, Typed, Refusing
<1>5. TypeOK'
  <2>1. req' \in [Requests -> Record]
    BY <1>0, <1>1, <1>2, Typed
  <2>2. lsMu' \in [Clients -> Requests \cup {None}]
    BY <1>0 DEF TypeOK
  <2> QED BY <1>0, <1>4, <2>1, <2>2 DEF TypeOK, Record
<1>6. RequestsOk' /\ Agreed' /\ SnapshotsSound'
  <2>1. \A d \in Clients, h \in Handles : Sound(sd'[d][h].snapshot, sd'[d][h].opens)
    BY <1>0 DEF SnapshotsSound
  <2>2. Stays(r)
    <3>1. lsMu \in [Clients -> Requests \cup {None}]
      BY <1>0 DEF TypeOK
    <3> QED BY <1>0, <1>3, <3>1, LockTaken
  <2>3. Lawful(q, r)
    BY <1>2 DEF Lawful, Updating
  <2> QED BY <1>0, <1>3, <2>1, <2>2, <2>3, RequestSteps
<1>7. OpensCounted' /\ ProgramsOwned'
  <2>1. KeepsAll
    BY <1>2, <1>3, NothingAdopted
  <2> QED BY <1>0, <1>4, <2>1, CountsKept
<1>8. ReferencesKept' /\ HandlesExact'
  BY <1>0, <1>2, <1>3, <1>5, NothingTracked
<1>9. Room'
  <2>1. /\ Cardinality(Unanswered)' = Cardinality(Unanswered) - One(Waits(req[r])) + One(Waits(q))
        /\ Cardinality(ToCreate)' = Cardinality(ToCreate) - One(Creates(req[r])) + One(Creates(q))
        /\ Cardinality(Unanswered)' \in Nat /\ Cardinality(ToCreate)' \in Nat
    BY <1>3, WaitingMoves
  <2>2. /\ One(Waits(req[r])) = 1 /\ One(Waits(q)) = 0 /\ One(Creates(req[r])) \in 0..1
        /\ One(Creates(q)) = 0
    BY <1>2 DEF One, Waits, Creates
  <2>3. Cardinality(Entries)' = Cardinality(Entries) /\ Cardinality(canon'.progs) = Cardinality(canon.progs)
    BY <1>4 DEF Entries
  <2>4. Cardinality(Unanswered)' <= Cardinality(Unanswered) /\ Cardinality(ToCreate)' <= Cardinality(ToCreate)
    BY <2>1, <2>2, Waiting
  <2>5. Cardinality(canon.progs) \in Nat
    BY <1>0, Typed, Constants, FS_Subset, FS_CardinalityType DEF Snapshot
  <2>6. /\ Cardinality(Entries)' + Cardinality(Unanswered)' <= MaxHandles
        /\ Cardinality(canon'.progs) + Cardinality(ToCreate)' <= MaxId
    BY <1>0, <2>1, <2>3, <2>4, <2>5, Waiting, Constants DEF Room
  <2> QED BY <1>0, <1>2, <1>3, <1>5, <2>6, RoomMoves
<1>10. CanonSound'
  BY <1>0, <1>4 DEF CanonSound
<1> QED BY <1>5, <1>6, <1>7, <1>8, <1>9, <1>10 DEF IInv

LEMMA ProgramsReplaced ==
  ASSUME NEW progs \in SUBSET Ids, NEW gone, NEW new \in SUBSET Ids
  PROVE  /\ Cardinality((progs \ gone) \cup new) <= Cardinality(progs) + Cardinality(new)
         /\ Cardinality((progs \ gone) \cup new) \in Nat
         /\ Cardinality(progs) \in Nat /\ Cardinality(new) \in Nat
<1> DEFINE rest == progs \ gone
<1>1. IsFiniteSet(progs) /\ IsFiniteSet(new)
  BY Constants, FS_Subset
<1>2. IsFiniteSet(rest) /\ Cardinality(rest) <= Cardinality(progs)
  <2>1. rest \in SUBSET progs
    OBVIOUS
  <2> QED BY <1>1, <2>1, FS_Subset
<1>3. rest \cap new \in SUBSET new
  OBVIOUS
<1> HIDE DEF rest
<1>4. IsFiniteSet(rest \cup new)
      /\ Cardinality(rest \cup new) = Cardinality(rest) + Cardinality(new) - Cardinality(rest \cap new)
  BY <1>1, <1>2, FS_Union
<1>5. IsFiniteSet(rest \cap new)
  BY <1>1, <1>3, FS_Subset
<1>6. /\ Cardinality(progs) \in Nat /\ Cardinality(new) \in Nat /\ Cardinality(rest) \in Nat
      /\ Cardinality(rest \cap new) \in Nat /\ Cardinality(rest \cup new) \in Nat
  BY <1>1, <1>2, <1>4, <1>5, FS_CardinalityType
<1>7. /\ Cardinality(rest \cup new) <= Cardinality(progs) + Cardinality(new)
      /\ Cardinality(rest \cup new) \in Nat
  BY <1>2, <1>4, <1>6
<1> QED BY <1>6, <1>7 DEF rest

\* The update is adopted: from now on its client has what it asked for.
LEMMA AdoptedSteps ==
  ASSUME IInv, NEW r \in Requests, req[r].pc = "building", updateMu' = None,
         NEW u, u = Applied(Flushed(canon, overlay), req[r].ask),
         NEW new, new = Created(Flushed(canon, overlay), req[r].ask),
         canon' = u, crashed' \in BOOLEAN,
         req' = [req EXCEPT ![r] = [req[r] EXCEPT !.pc = "adopted", !.flushed = FALSE, !.snapshot = u, !.created = new]],
         UNCHANGED <<open, pending, overlay, conn, own, lsMu, sd, held>>
  PROVE  IInv'
<1>0. /\ TypeOK /\ RequestsOk /\ Agreed /\ SnapshotsSound /\ CanonSound /\ OpensCounted /\ ProgramsOwned
      /\ ReferencesKept /\ HandlesExact /\ Room
  BY DEF IInv
<1>1. PICK q : q = [req[r] EXCEPT !.pc = "adopted", !.flushed = FALSE, !.snapshot = u, !.created = new]
  OBVIOUS
<1>2. PICK c : c = req[r].client
  OBVIOUS
<1>3. PICK ask : ask = req[r].ask
  OBVIOUS
<1>4. /\ c \in Clients /\ Adopted(c) = {} /\ u \in Snapshot /\ Sound(u, req[r].opens)
      /\ u.count = canon.count - One(own[c].project) + One(req[r].opens.project)
      /\ u.files = canon.files - One(own[c].file) + One(req[r].opens.file)
      /\ u.overlay = overlay
      /\ u.progs = (canon.progs \ ask.remove) \cup new
      /\ u.broken = canon.broken \ ask.remove
      /\ new \subseteq Ids \ (canon.progs \ ask.remove)
      /\ Cardinality(new) <= One("create" \in ask.ops)
      /\ ask.remove \subseteq own[c].progs
  <2>1. PICK opens : opens = req[r].opens
    OBVIOUS
  <2>2. u = Applied(Flushed(canon, overlay), ask) /\ new = Created(Flushed(canon, overlay), ask)
    BY <1>3
  <2>3. Builds(c, ask, opens, u, new)
    BY <1>2, <1>3, <2>1, <2>2, Building
  <2> QED BY <2>1, <2>3 DEF Builds
<1>5. req[r] \in Record
  BY <1>0, Typed
<1>6. /\ q \in Record /\ q.pc = "adopted" /\ q.client = c /\ q.base = req[r].base
      /\ q.handle = req[r].handle /\ q.opens = req[r].opens /\ q.ask = ask /\ q.snapshot = u /\ q.created = new
  BY <1>1, <1>2, <1>3, <1>4, <1>5 DEF Record
<1>7. Moves(r, q)
  BY <1>0, <1>1, Typed DEF Moves
<1>8. TypeOK'
  <2>1. req' \in [Requests -> Record]
    BY <1>0, <1>1, <1>6, Typed
  <2> QED BY <1>0, <1>4, <2>1 DEF TypeOK, Record
<1>9. RequestOf(req[r], r) /\ AgreedOf(req[r])
  BY <1>0 DEF RequestsOk, Agreed, Updating
<1>10. RequestsOk' /\ Agreed' /\ SnapshotsSound'
  <2>1. \A d \in Clients, h \in Handles : Sound(sd'[d][h].snapshot, sd'[d][h].opens)
    BY <1>0 DEF SnapshotsSound
  <2>2. Stays(r)
    BY <1>0, LockKept
  <2>3. Lawful(q, r)
    BY <1>2, <1>3, <1>4, <1>6, <1>9 DEF Lawful, RequestOf, AgreedOf, Updating
  <2> QED BY <1>0, <1>7, <2>1, <2>2, <2>3, RequestSteps
<1>11. OpensCounted' /\ ProgramsOwned'
  <2>1. KeepsOthers(c)
    BY <1>2, <1>6, <1>7, OthersAdopted
  <2>2. (HasProject(c) <=> own[c].project) /\ (HasFile(c) <=> own[c].file) /\ HasPrograms(c) = own[c].progs
    BY <1>4, Owning
  <2>3. Adopted(c)' = {r}
    <3>1. r \in Adopted(c)'
      BY <1>6, <1>7, Moving DEF Adopted
    <3>2. ASSUME NEW x \in Adopted(c)', x # r PROVE FALSE
      <4>1. x \in Adopted(c)
        BY <1>7, <3>2, Moving DEF Adopted
      <4> QED BY <1>4, <4>1
    <3> QED BY <3>1, <3>2
  <2>4. req'[r] = q /\ own' = own
    BY <1>7, Moving
  <2>5. /\ HasProject(c)' <=> q.opens.project
        /\ HasFile(c)' <=> q.opens.file
        /\ HasPrograms(c)' = (own[c].progs \ ask.remove) \cup new
    <3>1. /\ HasProject(c)' <=> req'[r].opens.project
          /\ HasFile(c)' <=> req'[r].opens.file
          /\ HasPrograms(c)' = (own'[c].progs \ req'[r].ask.remove) \cup req'[r].created
      BY <2>3, AdoptingNext
    <3> QED BY <1>6, <2>4, <3>1
  <2>6. /\ One(HasProject(c)) = One(own[c].project) /\ One(HasFile(c)) = One(own[c].file)
        /\ One(HasProject(c)') = One(q.opens.project) /\ One(HasFile(c)') = One(q.opens.file)
    BY <2>2, <2>5 DEF One
  <2>7. /\ canon'.count = canon.count - One(HasProject(c)) + One(HasProject(c)')
        /\ canon'.files = canon.files - One(HasFile(c)) + One(HasFile(c)')
    BY <1>4, <1>6, <2>6
  <2>8. /\ ask.remove \subseteq HasPrograms(c) /\ new \cap (canon.progs \ ask.remove) = {}
        /\ HasPrograms(c)' = (HasPrograms(c) \ ask.remove) \cup new
        /\ canon'.progs = (canon.progs \ ask.remove) \cup new
    BY <1>4, <2>2, <2>5
  <2> QED BY <1>0, <1>4, <2>1, <2>7, <2>8, CountsMoved
<1>12. ReferencesKept' /\ HandlesExact'
  <2>1. req[r].base = None /\ req[r].handle = None
    BY <1>9 DEF RequestOf, Updating
  <2> QED BY <1>0, <1>6, <1>7, <1>8, <2>1, NothingTracked
<1>13. Room'
  <2>1. /\ Cardinality(Unanswered)' = Cardinality(Unanswered) - One(Waits(req[r])) + One(Waits(q))
        /\ Cardinality(ToCreate)' = Cardinality(ToCreate) - One(Creates(req[r])) + One(Creates(q))
        /\ Cardinality(Unanswered)' \in Nat /\ Cardinality(ToCreate)' \in Nat
    BY <1>7, WaitingMoves
  <2>2. /\ One(Waits(req[r])) = 1 /\ One(Waits(q)) = 1 /\ One(Creates(req[r])) = One("create" \in ask.ops)
        /\ One(Creates(q)) = 0 /\ One("create" \in ask.ops) \in 0..1
    BY <1>3, <1>6 DEF One, Waits, Creates
  <2>3. Cardinality(Entries)' = Cardinality(Entries)
    BY DEF Entries
  <2>4. Cardinality(Unanswered)' = Cardinality(Unanswered)
        /\ Cardinality(ToCreate)' = Cardinality(ToCreate) - One("create" \in ask.ops)
    BY <2>1, <2>2, Waiting
  <2>5. /\ Cardinality(canon.progs) \in Nat /\ Cardinality(u.progs) \in Nat
        /\ Cardinality(u.progs) <= Cardinality(canon.progs) + One("create" \in ask.ops)
    <3>1. canon.progs \in SUBSET Ids /\ new \in SUBSET Ids
      BY <1>0, <1>4, Typed DEF Snapshot
    <3>4. /\ Cardinality((canon.progs \ ask.remove) \cup new) <= Cardinality(canon.progs) + Cardinality(new)
          /\ Cardinality((canon.progs \ ask.remove) \cup new) \in Nat
          /\ Cardinality(canon.progs) \in Nat /\ Cardinality(new) \in Nat
      BY <3>1, ProgramsReplaced
    <3> QED BY <1>4, <2>2, <3>4
  <2>6. /\ Cardinality(Entries)' + Cardinality(Unanswered)' <= MaxHandles
        /\ Cardinality(canon'.progs) + Cardinality(ToCreate)' <= MaxId
    BY <1>0, <2>1, <2>2, <2>3, <2>4, <2>5, Waiting, Constants DEF Room
  <2> QED BY <1>0, <1>6, <1>7, <1>8, <2>6, RoomMoves
<1>14. CanonSound'
  <2>1. Needed(canon') => canon'.loaded
    BY <1>4 DEF Sound
  <2> QED BY <1>0, <1>4, <2>1 DEF CanonSound
<1> QED BY <1>8, <1>10, <1>11, <1>12, <1>13, <1>14 DEF IInv

LEMMA BuildSteps == ASSUME IInv, NEW r \in Requests, Build(r) PROVE IInv'
<1>1. req[r].pc = "building" /\ updateMu' = None /\ UNCHANGED <<open, pending, overlay, conn, own, sd, held>>
  BY DEF Build
<1>2. CASE /\ canon' = Refused(req[r].flushed, overlay)
           /\ req' = [req EXCEPT ![r] = NoRequest]
           /\ lsMu' = [lsMu EXCEPT ![req[r].client] = None]
           /\ UNCHANGED crashed
  BY <1>1, <1>2, RefusedSteps
<1>3. CASE /\ canon' = Applied(Flushed(canon, overlay), req[r].ask)
           /\ req' = [req EXCEPT ![r].pc = "adopted", ![r].flushed = FALSE,
                                 ![r].snapshot = Applied(Flushed(canon, overlay), req[r].ask),
                                 ![r].created = Created(Flushed(canon, overlay), req[r].ask)]
           /\ crashed' = Panics(Flushed(canon, overlay), req[r].ask)
           /\ UNCHANGED lsMu
  <2> DEFINE u == Applied(Flushed(canon, overlay), req[r].ask)
             new == Created(Flushed(canon, overlay), req[r].ask)
  <2>1. crashed' \in BOOLEAN
    BY <1>3 DEF Panics
  <2>2. req' = [req EXCEPT ![r] = [req[r] EXCEPT !.pc = "adopted", !.flushed = FALSE, !.snapshot = u, !.created = new]]
    BY <1>3, Typed DEF IInv
  <2>3. canon' = u
    BY <1>3
  <2> HIDE DEF u, new
  <2> QED BY <1>1, <1>3, <2>1, <2>2, <2>3, AdoptedSteps DEF u, new
<1> QED BY <1>2, <1>3 DEF Build

-----------------------------------------------------------------------------
(* Handles.                                                                     *)

\* Who gets the handle.
LEMMA Giving ==
  ASSUME TypeOK, ReferencesKept, NEW c \in Clients, NEW h \in Handles, held' = Given(c, h)
  PROVE  /\ held' \in [Clients -> SUBSET Handles]
         /\ \A d \in Clients, k \in Handles : d # c \/ k # h => (k \in held'[d] <=> k \in held[d])
         /\ conn[c] = "open" => h \in held'[c]
         /\ conn[c] # "open" => held' = held
         /\ \A d \in Clients : conn[d] # "open" => held'[d] = {}
<1>1. held \in [Clients -> SUBSET Handles] /\ \A d \in Clients : conn[d] # "open" => held[d] = {}
  BY DEF TypeOK, ReferencesKept
<1>2. CASE conn[c] = "open"
  <2>1. held' = [held EXCEPT ![c] = held[c] \cup {h}]
    BY <1>2 DEF Given
  <2>2. held'[c] = held[c] \cup {h} /\ \A d \in Clients \ {c} : held'[d] = held[d]
    BY <1>1, <2>1
  <2>3. held' \in [Clients -> SUBSET Handles]
    BY <1>1, <2>1
  <2> QED BY <1>1, <1>2, <2>2, <2>3
<1>3. CASE conn[c] # "open"
  BY <1>1, <1>3 DEF Given
<1> QED BY <1>2, <1>3

\* A snapshot that a request starts from is referenced, and more than once when somebody else
\* refers to it too.
LEMMA BasesUsed ==
  ASSUME IInv, NEW x \in Requests, req[x].pc # "idle", req[x].base # None,
         NEW c, c = req[x].client, NEW b, b = req[x].base
  PROVE  /\ c \in Clients /\ b \in Handles /\ x \in Using(c, b)
         /\ Referenced(c, b) >= 1 /\ sd[c][b].refCount >= 1
         /\ b \in held[c] => Referenced(c, b) >= 2 /\ sd[c][b].refCount >= 2
         /\ \A y \in Requests \ {x} : req[y].pc # "idle" /\ req[y].client = c /\ req[y].base = b
                => Referenced(c, b) >= 2 /\ sd[c][b].refCount >= 2
<1>0. TypeOK /\ RequestsOk /\ ReferencesKept
  BY DEF IInv
<1>1. c \in Clients /\ b \in Handles
  <2>1. req[x] \in Record
    BY <1>0, Typed
  <2> QED BY <1>0, <2>1 DEF RequestsOk, RequestOf, Record
<1>2. x \in Using(c, b)
  BY UsingSets DEF Uses
<1>3. Cardinality(Using(c, b)) \in Nat /\ Cardinality(Answering(c, b)) \in Nat /\ IsFiniteSet(Using(c, b))
  BY UsingSets
<1>4. Cardinality(Using(c, b)) # 0
  BY <1>2, <1>3, FS_EmptySet
<1>5. /\ sd[c][b].refCount \in Nat /\ sd[c][b].refCount >= Referenced(c, b)
      /\ Referenced(c, b) \in Nat
  <2>1. Referenced(c, b) \in Nat
    BY <1>3 DEF Referenced
  <2> QED BY <1>0, <1>1, <2>1, Typed DEF ReferencesKept, Entry
<1>6. Referenced(c, b) = One(b \in held[c]) + Cardinality(Using(c, b)) + Cardinality(Answering(c, b))
  BY DEF Referenced, One
<1>7. ASSUME NEW y \in Requests \ {x}, req[y].pc # "idle", req[y].client = c, req[y].base = b
      PROVE  Cardinality(Using(c, b)) >= 2
  <2>1. y \in Using(c, b) \ {x}
    BY <1>7, UsingSets DEF Uses
  <2>2. IsFiniteSet(Using(c, b) \ {x}) /\ Cardinality(Using(c, b) \ {x}) = Cardinality(Using(c, b)) - 1
    BY <1>2, <1>3, FS_RemoveElement
  <2>3. Cardinality(Using(c, b) \ {x}) # 0 /\ Cardinality(Using(c, b) \ {x}) \in Nat
    BY <2>1, <2>2, FS_EmptySet, FS_CardinalityType
  <2> QED BY <1>3, <2>2, <2>3
<1>8. One(b \in held[c]) \in 0..1 /\ (b \in held[c] => One(b \in held[c]) = 1)
  BY DEF One
<1> HIDE DEF Referenced
<1>9. Referenced(c, b) >= 1 /\ sd[c][b].refCount >= 1
  BY <1>3, <1>4, <1>5, <1>6, <1>8
<1>10. b \in held[c] => Referenced(c, b) >= 2 /\ sd[c][b].refCount >= 2
  BY <1>3, <1>4, <1>5, <1>6, <1>8
<1>11. \A y \in Requests \ {x} : req[y].pc # "idle" /\ req[y].client = c /\ req[y].base = b
           => Referenced(c, b) >= 2 /\ sd[c][b].refCount >= 2
  BY <1>3, <1>5, <1>6, <1>7, <1>8
<1> QED BY <1>1, <1>2, <1>9, <1>10, <1>11

\* Registering a snapshot under a handle that nobody uses leaves all others alone.
Registered(c, h, e) ==
  /\ h \in Handles /\ sd[c][h].refCount = 0 /\ Referenced(c, h) = 0 /\ Promised(c, h) = 0
  /\ sd' \in [Clients -> [Handles -> Entry]] /\ sd'[c][h] = e
  /\ \A d \in Clients, k \in Handles : d # c \/ k # h => sd'[d][k] = sd[d][k]
  /\ Cardinality(Entries)' = Cardinality(Entries) + 1
  /\ \A d \in Clients, k \in Handles : Sound(sd'[d][k].snapshot, sd'[d][k].opens)
  /\ \A x \in Requests : req[x].pc # "idle" /\ req[x].base # None
        => sd'[req[x].client][req[x].base].snapshot = sd[req[x].client][req[x].base].snapshot

LEMMA Registering ==
  ASSUME IInv, NEW r \in Requests, Waits(req[r]), NEW c \in Clients, NEW h, h = FreeHandle(c),
         NEW e \in Entry, e.refCount = 1, sd' = [sd EXCEPT ![c][h] = e], Sound(e.snapshot, e.opens)
  PROVE  Registered(c, h, e)
<1>1. h \in Handles /\ sd[c][h].refCount = 0 /\ Referenced(c, h) = 0
  BY FreshHandle
<1>2. TypeOK /\ SnapshotsSound
  BY DEF IInv
<1>3. /\ sd' \in [Clients -> [Handles -> Entry]] /\ sd'[c][h] = e
      /\ \A d \in Clients, k \in Handles : d # c \/ k # h => sd'[d][k] = sd[d][k]
      /\ Cardinality(Entries)' = Cardinality(Entries) - One(sd[c][h].refCount > 0) + One(e.refCount > 0)
  <2>1. EntryMoved(c, h, e)
    BY <1>1, <1>2, EntriesMove
  <2> QED BY <2>1 DEF EntryMoved
<1>4. One(sd[c][h].refCount > 0) = 0 /\ One(e.refCount > 0) = 1
  BY <1>1 DEF One
<1>5. Cardinality(Entries)' = Cardinality(Entries) + 1
  BY <1>3, <1>4, Waiting
<1>6. Promised(c, h) = 0
  <2>1. Cardinality(Using(c, h)) \in Nat /\ Cardinality(Answering(c, h)) \in Nat
    BY UsingSets
  <2> QED BY <1>1, <2>1 DEF Promised, Referenced
<1>7. \A d \in Clients, k \in Handles : Sound(sd'[d][k].snapshot, sd'[d][k].opens)
  BY <1>2, <1>3 DEF SnapshotsSound
<1>8. ASSUME NEW x \in Requests, req[x].pc # "idle", req[x].base # None
      PROVE  sd'[req[x].client][req[x].base].snapshot = sd[req[x].client][req[x].base].snapshot
  <2>1. /\ req[x].client \in Clients /\ req[x].base \in Handles
        /\ Referenced(req[x].client, req[x].base) >= 1
    BY <1>8, BasesUsed
  <2>2. req[x].client # c \/ req[x].base # h
    BY <1>1, <2>1
  <2> QED BY <1>3, <2>1, <2>2
<1> QED BY <1>1, <1>3, <1>5, <1>6, <1>7, <1>8 DEF Registered

\* A connected client's new handle is its only reference; a gone client's is none.
LEMMA Delivering ==
  ASSUME IInv, NEW r \in Requests, NEW q, Moves(r, q), NEW c \in Clients, NEW h \in Handles,
         sd[c][h].refCount = 0, Referenced(c, h) = 0, Promised(c, h) = 0, sd'[c][h].refCount = 1,
         \A d \in Clients, k \in Handles : d # c \/ k # h =>
            /\ sd'[d][k] = sd[d][k] /\ (k \in held'[d] <=> k \in held[d])
            /\ Uses(q, d, k) <=> Uses(req[r], d, k)
            /\ ~Answers(req[r], d, k) /\ ~Answers(q, d, k),
         ~Answers(req[r], c, h), Uses(q, c, h) <=> Uses(req[r], c, h),
         \/ h \in held'[c] /\ ~Answers(q, c, h)
         \/ h \notin held'[c] /\ Answers(q, c, h)
         \/ h \notin held'[c] /\ ~Answers(q, c, h) /\ conn[c] # "open"
  PROVE  \A d \in Clients, k \in Handles : Tracks(d, k)
<1> SUFFICES ASSUME NEW d \in Clients, NEW k \in Handles
             PROVE  Tracks(d, k)
  OBVIOUS
<1>1. /\ Referenced(d, k) \in Nat /\ Referenced(d, k)' \in Nat
      /\ Referenced(d, k)' = Referenced(d, k) - One(k \in held[d]) + One(k \in held'[d])
            - One(Uses(req[r], d, k)) + One(Uses(q, d, k))
            - One(Answers(req[r], d, k)) + One(Answers(q, d, k))
  BY ReferencedMoves
<1>2. /\ Promised(d, k) \in Nat
      /\ Promised(d, k)' = Promised(d, k) - One(k \in held[d]) + One(k \in held'[d])
            - One(Answers(req[r], d, k)) + One(Answers(q, d, k))
  BY PromisedMoves
<1>3. sd[d][k].refCount \in Nat /\ Promised(d, k) <= 1
  BY Typed DEF IInv, Entry, ReferencesKept
<1>4. CASE d = c /\ k = h
  <2>1. h \notin held[c]
    BY UsingSets DEF Promised
  <2>2. /\ One(Answers(req[r], d, k)) = 0 /\ One(Uses(q, d, k)) = One(Uses(req[r], d, k))
        /\ One(Uses(q, d, k)) \in 0..1 /\ One(k \in held[d]) = 0
    BY <1>4, <2>1 DEF One
  <2>3. /\ One(k \in held'[d]) + One(Answers(q, d, k)) \in 0..1
        /\ conn[c] = "open" => One(k \in held'[d]) + One(Answers(q, d, k)) = 1
        /\ One(k \in held'[d]) \in 0..1 /\ One(Answers(q, d, k)) \in 0..1
    BY <1>4 DEF One
  <2>4. sd[d][k].refCount = 0 /\ sd'[d][k].refCount = 1 /\ Referenced(d, k) = 0 /\ Promised(d, k) = 0
    BY <1>4
  <2> HIDE DEF Referenced, Promised
  <2>5. /\ Referenced(d, k)' = One(k \in held'[d]) + One(Answers(q, d, k))
        /\ Promised(d, k)' = One(k \in held'[d]) + One(Answers(q, d, k))
    BY <1>1, <1>2, <2>2, <2>3, <2>4
  <2> QED BY <1>1, <1>4, <2>3, <2>4, <2>5 DEF Tracks
<1>5. CASE d # c \/ k # h
  <2>1. /\ sd'[d][k] = sd[d][k] /\ (k \in held'[d] <=> k \in held[d])
        /\ Uses(q, d, k) <=> Uses(req[r], d, k)
        /\ ~Answers(req[r], d, k) /\ ~Answers(q, d, k)
    BY <1>5
  <2>2. /\ One(Answers(req[r], d, k)) = 0 /\ One(Answers(q, d, k)) = 0
        /\ One(Uses(q, d, k)) = One(Uses(req[r], d, k)) /\ One(Uses(q, d, k)) \in 0..1
        /\ One(k \in held[d]) = One(k \in held'[d]) /\ One(k \in held[d]) \in 0..1
    BY <2>1 DEF One
  <2> HIDE DEF Referenced, Promised
  <2>3. Referenced(d, k)' = Referenced(d, k) /\ Promised(d, k)' = Promised(d, k)
    BY <1>1, <1>2, <2>2
  <2> QED BY <1>1, <1>3, <2>1, <2>3 DEF Tracks
<1> QED BY <1>4, <1>5

LEMMA CommitSteps == ASSUME IInv, NEW r \in Requests, Commit(r) PROVE IInv'
<1>0. /\ TypeOK /\ RequestsOk /\ Agreed /\ SnapshotsSound /\ CanonSound /\ OpensCounted /\ ProgramsOwned
      /\ ReferencesKept /\ HandlesExact /\ Room
  BY DEF IInv
<1>1. PICK q : q = NoRequest
  OBVIOUS
<1>2. PICK c : c = req[r].client
  OBVIOUS
<1>3. PICK h : h = FreeHandle(c)
  OBVIOUS
<1>4. PICK p : p = (own[c].progs \ req[r].ask.remove) \cup req[r].created
  OBVIOUS
<1>5. PICK e : e = [refCount |-> 1, snapshot |-> req[r].snapshot, opens |-> req[r].opens]
  OBVIOUS
<1>6. /\ req[r].pc = "adopted"
      /\ own' = [own EXCEPT ![c] = [project |-> req[r].opens.project, file |-> req[r].opens.file, progs |-> p]]
      /\ sd' = [sd EXCEPT ![c][h] = e] /\ lsMu' = [lsMu EXCEPT ![c] = None] /\ held' = Given(c, h)
      /\ req' = [req EXCEPT ![r] = q]
      /\ UNCHANGED <<canon, open, pending, overlay, updateMu, conn, crashed>>
  <2>1. own' = [own EXCEPT ![c] = [project |-> req[r].opens.project, file |-> req[r].opens.file, progs |-> p]]
    <3>1. own' = [own EXCEPT ![c] = [project |-> req[r].opens.project, file |-> req[r].opens.file,
                                     progs |-> (own[c].progs \ req[r].ask.remove) \cup req[r].created]]
      BY <1>2 DEF Commit
    <3> QED BY <1>4, <3>1
  <2> QED BY <1>1, <1>2, <1>3, <1>5, <2>1 DEF Commit
<1>7. q \in Record /\ q.pc = "idle" /\ q.handle = None
  BY <1>1, Idle
<1>8. req[r] \in Record
  BY <1>0, Typed
<1>9. /\ req[r].opens \in Opens /\ req[r].snapshot \in Snapshot /\ req[r].created \subseteq Ids
      /\ e \in Entry /\ e.refCount = 1 /\ e.snapshot = req[r].snapshot /\ e.opens = req[r].opens
  BY <1>5, <1>8 DEF Record, Entry
<1>10. /\ Moves(r, q) /\ req[r].base = None /\ req[r].handle = None /\ c \in Clients /\ lsMu[c] = r
       /\ Adopted(c) = {r}
  <2>1. Moves(r, q)
    BY <1>0, <1>6, Typed DEF Moves
  <2>2. req[r].base = None /\ req[r].handle = None
    BY <1>0, <1>6 DEF RequestsOk, RequestOf, Updating
  <2>3. c \in Clients /\ lsMu[c] = r /\ Adopted(c) = {r}
    BY <1>0, <1>2, <1>6, OneUpdate DEF Updating
  <2> QED BY <2>1, <2>2, <2>3
<1>11. p \subseteq Ids
  BY <1>0, <1>4, <1>9, <1>10, Typed
<1>12. /\ own' \in [Clients -> [project : BOOLEAN, file : BOOLEAN, progs : SUBSET Ids]]
       /\ own'[c].project = req[r].opens.project /\ own'[c].file = req[r].opens.file /\ own'[c].progs = p
       /\ \A d \in Clients \ {c} : own'[d] = own[d]
  <2> DEFINE o == [project |-> req[r].opens.project, file |-> req[r].opens.file, progs |-> p]
  <2>1. /\ o \in [project : BOOLEAN, file : BOOLEAN, progs : SUBSET Ids]
        /\ o.project = req[r].opens.project /\ o.file = req[r].opens.file /\ o.progs = p
    BY <1>9, <1>11 DEF Opens
  <2>2. own' = [own EXCEPT ![c] = o]
    BY <1>6
  <2> HIDE DEF o
  <2>3. own' \in [Clients -> [project : BOOLEAN, file : BOOLEAN, progs : SUBSET Ids]] /\ own'[c] = o
        /\ \A d \in Clients \ {c} : own'[d] = own[d]
    BY <1>0, <1>10, <2>1, <2>2, Typed
  <2> QED BY <2>1, <2>3
<1>13. /\ h \in Handles /\ sd[c][h].refCount = 0 /\ Referenced(c, h) = 0 /\ Promised(c, h) = 0
       /\ sd' \in [Clients -> [Handles -> Entry]] /\ sd'[c][h] = e
       /\ \A d \in Clients, k \in Handles : d # c \/ k # h => sd'[d][k] = sd[d][k]
       /\ Cardinality(Entries)' = Cardinality(Entries) + 1
       /\ \A d \in Clients, k \in Handles : Sound(sd'[d][k].snapshot, sd'[d][k].opens)
       /\ \A x \in Requests : req[x].pc # "idle" /\ req[x].base # None
             => sd'[req[x].client][req[x].base].snapshot = sd[req[x].client][req[x].base].snapshot
  <2>1. Waits(req[r])
    BY <1>6 DEF Waits
  <2>2. Sound(e.snapshot, e.opens)
    BY <1>0, <1>6, <1>9 DEF SnapshotsSound
  <2>3. Registered(c, h, e)
    BY <1>3, <1>6, <1>9, <1>10, <2>1, <2>2, Registering
  <2> QED BY <2>3 DEF Registered
<1>14. /\ held' \in [Clients -> SUBSET Handles]
       /\ \A d \in Clients, k \in Handles : d # c \/ k # h => (k \in held'[d] <=> k \in held[d])
       /\ conn[c] = "open" => h \in held'[c]
       /\ conn[c] # "open" => held' = held
       /\ \A d \in Clients : conn[d] # "open" => held'[d] = {}
  BY <1>0, <1>6, <1>10, <1>13, Giving
<1>15. TypeOK'
  <2>1. req' \in [Requests -> Record]
    BY <1>0, <1>6, <1>7, Typed
  <2>2. lsMu' \in [Clients -> Requests \cup {None}]
    BY <1>0, <1>6 DEF TypeOK
  <2> QED BY <1>0, <1>6, <1>12, <1>13, <1>14, <2>1, <2>2 DEF TypeOK, Record
<1>16. RequestsOk' /\ Agreed' /\ SnapshotsSound'
  <2>1. Stays(r)
    <3>1. lsMu \in [Clients -> Requests \cup {None}]
      BY <1>0 DEF TypeOK
    <3> QED BY <1>0, <1>6, <1>10, <1>12, <3>1, LockTaken
  <2>2. Lawful(q, r)
    BY <1>7 DEF Lawful, Updating
  <2> QED BY <1>0, <1>6, <1>10, <1>13, <2>1, <2>2, RequestSteps
<1>17. OpensCounted' /\ ProgramsOwned'
  <2>1. KeepsOthers(c)
    BY <1>2, <1>7, <1>10, <1>12, OthersAdopted
  <2>2. /\ HasProject(c) <=> req[r].opens.project
        /\ HasFile(c) <=> req[r].opens.file
        /\ HasPrograms(c) = p
    BY <1>4, <1>10, Adopting
  <2>3. Adopted(c)' = {}
    <3>1. ASSUME NEW x \in Adopted(c)' PROVE FALSE
      <4>1. x \in Requests /\ req'[x].pc = "adopted" /\ req'[x].client = c
        BY <3>1 DEF Adopted
      <4>2. x # r
        BY <1>7, <1>10, <4>1, Moving
      <4>3. x \in Adopted(c)
        BY <1>10, <4>1, <4>2, Moving DEF Adopted
      <4> QED BY <1>10, <4>2, <4>3
    <3> QED BY <3>1
  <2>4. (HasProject(c)' <=> own'[c].project) /\ (HasFile(c)' <=> own'[c].file) /\ HasPrograms(c)' = own'[c].progs
    BY <2>3, OwningNext
  <2>5. KeepsAll
    BY <1>12, <2>1, <2>2, <2>4 DEF KeepsAll, KeepsOthers
  <2> QED BY <1>0, <1>6, <2>5, CountsKept
<1>18. ReferencesKept' /\ HandlesExact'
  <2>1. \A d \in Clients, k \in Handles :
           /\ ~Uses(req[r], d, k) /\ ~Uses(q, d, k) /\ ~Answers(req[r], d, k) /\ ~Answers(q, d, k)
    BY <1>7, <1>10, Constants DEF Uses, Answers
  <2>2. h \in held'[c] \/ (h \notin held'[c] /\ conn[c] # "open")
    BY <1>14
  <2>3. \A d \in Clients, k \in Handles : Tracks(d, k)
    BY <1>9, <1>10, <1>13, <1>14, <2>1, <2>2, Delivering
  <2> QED BY <1>0, <1>6, <1>14, <1>15, <2>3, CountsTrack
<1>19. Room'
  <2>1. /\ Cardinality(Unanswered)' = Cardinality(Unanswered) - One(Waits(req[r])) + One(Waits(q))
        /\ Cardinality(ToCreate)' = Cardinality(ToCreate) - One(Creates(req[r])) + One(Creates(q))
        /\ Cardinality(Unanswered)' \in Nat /\ Cardinality(ToCreate)' \in Nat
    BY <1>10, WaitingMoves
  <2>2. /\ One(Waits(req[r])) = 1 /\ One(Waits(q)) = 0 /\ One(Creates(req[r])) = 0
        /\ One(Creates(q)) = 0
    BY <1>6, <1>7 DEF One, Waits, Creates
  <2>3. Cardinality(Unanswered)' = Cardinality(Unanswered) - 1 /\ Cardinality(ToCreate)' = Cardinality(ToCreate)
    BY <2>1, <2>2, Waiting
  <2>4. /\ Cardinality(Entries)' + Cardinality(Unanswered)' <= MaxHandles
        /\ Cardinality(canon'.progs) + Cardinality(ToCreate)' <= MaxId
    BY <1>0, <1>6, <1>13, <2>3, Waiting, Constants DEF Room
  <2> QED BY <1>0, <1>7, <1>10, <1>13, <1>15, <2>4, RoomMoves
<1>20. CanonSound'
  BY <1>0, <1>6 DEF CanonSound
<1> QED BY <1>15, <1>16, <1>17, <1>18, <1>19, <1>20 DEF IInv

-----------------------------------------------------------------------------
(* Private snapshots.                                                           *)

\* Another reference to a snapshot.
LEMMA Retaining ==
  ASSUME IInv, NEW c \in Clients, NEW b \in Handles, sd[c][b].refCount >= 1,
         NEW e, e = [sd[c][b] EXCEPT !.refCount = @ + 1], sd' = [sd EXCEPT ![c][b] = e]
  PROVE  /\ EntryMoved(c, b, e) /\ e.refCount = sd[c][b].refCount + 1
         /\ e.snapshot = sd[c][b].snapshot /\ e.opens = sd[c][b].opens
         /\ Cardinality(Entries)' = Cardinality(Entries)
<1>1. sd[c][b] \in Entry
  BY Typed DEF IInv
<1>2. /\ e \in Entry /\ e.refCount = sd[c][b].refCount + 1
      /\ e.snapshot = sd[c][b].snapshot /\ e.opens = sd[c][b].opens
  BY <1>1 DEF Entry
<1>3. EntryMoved(c, b, e)
  BY <1>2, EntriesMove DEF IInv
<1>4. One(sd[c][b].refCount > 0) = 1 /\ One(e.refCount > 0) = 1
  BY <1>1, <1>2 DEF One, Entry
<1>5. Cardinality(Entries)' = Cardinality(Entries)
  BY <1>3, <1>4, Waiting DEF EntryMoved
<1> QED BY <1>2, <1>3, <1>5

LEMMA BeginDeriveSteps ==
  ASSUME IInv, NEW r \in Requests, NEW c \in Clients, NEW b \in Handles \cup {None},
         NEW ask \in DeriveAsks, BeginDerive(r, c, b, ask)
  PROVE  IInv'
<1>0. /\ TypeOK /\ RequestsOk /\ Agreed /\ SnapshotsSound /\ CanonSound /\ OpensCounted /\ ProgramsOwned
      /\ ReferencesKept /\ HandlesExact /\ Room
  BY DEF IInv
<1>1. PICK q : q = [NoRequest EXCEPT !.pc = "deriving", !.client = c, !.base = b, !.ask = ask]
  OBVIOUS
<1>2. PICK e : e = [sd[c][b] EXCEPT !.refCount = @ + 1]
  OBVIOUS
<1>3. /\ req[r].pc = "idle" /\ conn[c] = "open" /\ b \in held[c] \cup {None}
      /\ Within(IF b = None THEN Empty ELSE sd[c][b].snapshot, ask)
      /\ req' = [req EXCEPT ![r] = q]
      /\ b = None => sd' = sd
      /\ b # None => sd' = [sd EXCEPT ![c][b] = e]
      /\ UNCHANGED <<canon, open, pending, overlay, updateMu, conn, own, lsMu, held, crashed>>
  <2>1. b # None => sd' = [sd EXCEPT ![c][b] = e]
    <3> SUFFICES ASSUME b # None
                 PROVE  sd' = [sd EXCEPT ![c][b] = e]
      OBVIOUS
    <3>1. sd' = [sd EXCEPT ![c][b].refCount = @ + 1]
      BY DEF BeginDerive
    <3>2. b \in Handles /\ sd \in [Clients -> [Handles -> Entry]]
      BY <1>0, Typed
    <3> QED BY <1>2, <3>1, <3>2
  <2> QED BY <1>1, <2>1 DEF BeginDerive
<1>4. ask \in Ask
  BY AskShape
<1>5. q \in Record /\ q.pc = "deriving" /\ q.client = c /\ q.base = b /\ q.ask = ask /\ q.handle = None
  BY <1>1, <1>4, Idle DEF Record
<1>6. Moves(r, q)
  BY <1>0, <1>3, Typed DEF Moves
<1>7. /\ sd' \in [Clients -> [Handles -> Entry]]
      /\ \A d \in Clients, k \in Handles :
            /\ sd'[d][k].snapshot = sd[d][k].snapshot /\ sd'[d][k].opens = sd[d][k].opens
            /\ sd'[d][k].refCount = sd[d][k].refCount + One(d = c /\ k = b)
      /\ Cardinality(Entries)' = Cardinality(Entries)
  <2>1. CASE b = None
    <3>1. \A d \in Clients, k \in Handles : One(d = c /\ k = b) = 0 /\ sd[d][k].refCount \in Nat
      BY <1>0, <2>1, Constants, Typed DEF One, Entry
    <3>2. Cardinality(Entries)' = Cardinality(Entries)
      BY <1>3, <2>1 DEF Entries
    <3> QED BY <1>0, <1>3, <2>1, <3>1, <3>2, Typed
  <2>2. CASE b # None
    <3>1. b \in Handles /\ b \in held[c]
      BY <1>3, <2>2
    <3>2. sd[c][b].refCount >= 1
      <4>1. sd[c][b].refCount = Referenced(c, b)
        BY <1>0, <1>3, <3>1, Exactly
      <4> QED BY <3>1, <4>1, UsingSets DEF Referenced
    <3>3. /\ EntryMoved(c, b, e) /\ e.refCount = sd[c][b].refCount + 1
          /\ e.snapshot = sd[c][b].snapshot /\ e.opens = sd[c][b].opens
          /\ Cardinality(Entries)' = Cardinality(Entries)
      BY <1>2, <1>3, <2>2, <3>1, <3>2, Retaining
    <3>4. ASSUME NEW d \in Clients, NEW k \in Handles
          PROVE  /\ sd'[d][k].snapshot = sd[d][k].snapshot /\ sd'[d][k].opens = sd[d][k].opens
                 /\ sd'[d][k].refCount = sd[d][k].refCount + One(d = c /\ k = b)
      <4>1. sd[d][k].refCount \in Nat
        BY <1>0, Typed DEF Entry
      <4>2. CASE d = c /\ k = b
        BY <3>3, <4>2 DEF EntryMoved, One
      <4>3. CASE d # c \/ k # b
        BY <3>3, <4>1, <4>3 DEF EntryMoved, One
      <4> QED BY <4>2, <4>3
    <3> QED BY <3>3, <3>4 DEF EntryMoved
  <2> QED BY <2>1, <2>2
<1>8. TypeOK'
  <2>1. req' \in [Requests -> Record]
    BY <1>0, <1>3, <1>5, Typed
  <2> QED BY <1>0, <1>3, <1>7, <2>1 DEF TypeOK, Record
<1>9. RequestsOk' /\ Agreed' /\ SnapshotsSound'
  <2>1. \A d \in Clients, k \in Handles : Sound(sd'[d][k].snapshot, sd'[d][k].opens)
    BY <1>0, <1>7 DEF SnapshotsSound
  <2>2. Stays(r)
    BY <1>0, <1>3, LockKept
  <2>3. Lawful(q, r)
    BY <1>3, <1>5 DEF Lawful, Updating
  <2> QED BY <1>0, <1>3, <1>6, <2>1, <2>2, <2>3, RequestSteps
<1>10. OpensCounted' /\ ProgramsOwned'
  <2>1. KeepsAll
    BY <1>3, <1>5, <1>6, NothingAdopted
  <2> QED BY <1>0, <1>3, <2>1, CountsKept
<1>11. ReferencesKept' /\ HandlesExact'
  <2>1. ASSUME NEW d \in Clients, NEW k \in Handles PROVE Tracks(d, k)
    <3>1. /\ Referenced(d, k) \in Nat /\ Referenced(d, k)' \in Nat
          /\ Referenced(d, k)' = Referenced(d, k) - One(k \in held[d]) + One(k \in held'[d])
                - One(Uses(req[r], d, k)) + One(Uses(q, d, k))
                - One(Answers(req[r], d, k)) + One(Answers(q, d, k))
      BY <1>6, ReferencedMoves
    <3>2. /\ Promised(d, k) \in Nat
          /\ Promised(d, k)' = Promised(d, k) - One(k \in held[d]) + One(k \in held'[d])
                - One(Answers(req[r], d, k)) + One(Answers(q, d, k))
      BY <1>6, PromisedMoves
    <3>3. /\ ~Uses(req[r], d, k) /\ ~Answers(req[r], d, k) /\ ~Answers(q, d, k)
          /\ Uses(q, d, k) <=> (d = c /\ k = b)
      BY <1>3, <1>5, Constants DEF Uses, Answers
    <3>4. /\ One(Uses(req[r], d, k)) = 0 /\ One(Answers(req[r], d, k)) = 0 /\ One(Answers(q, d, k)) = 0
          /\ One(Uses(q, d, k)) = One(d = c /\ k = b) /\ One(d = c /\ k = b) \in 0..1
          /\ One(k \in held[d]) = One(k \in held'[d]) /\ One(k \in held[d]) \in 0..1
      BY <1>3, <3>3 DEF One
    <3>5. sd[d][k].refCount \in Nat /\ Promised(d, k) <= 1
      BY <1>0, Typed DEF Entry, ReferencesKept
    <3>6. sd'[d][k].refCount = sd[d][k].refCount + One(d = c /\ k = b)
      BY <1>7
    <3> HIDE DEF Referenced, Promised
    <3>7. Referenced(d, k)' = Referenced(d, k) + One(d = c /\ k = b) /\ Promised(d, k)' = Promised(d, k)
      BY <3>1, <3>2, <3>4
    <3> QED BY <3>1, <3>4, <3>5, <3>6, <3>7 DEF Tracks
  <2>2. \A d \in Clients : conn[d] # "open" => held'[d] = {}
    BY <1>0, <1>3 DEF ReferencesKept
  <2> QED BY <1>0, <1>3, <1>8, <2>1, <2>2, CountsTrack
<1>12. Room'
  <2>1. /\ Cardinality(Unanswered)' = Cardinality(Unanswered) - One(Waits(req[r])) + One(Waits(q))
        /\ Cardinality(ToCreate)' = Cardinality(ToCreate) - One(Creates(req[r])) + One(Creates(q))
        /\ Cardinality(Unanswered)' \in Nat /\ Cardinality(ToCreate)' \in Nat
    BY <1>6, WaitingMoves
  <2>2. One(Waits(req[r])) = 0 /\ One(Waits(q)) = 1 /\ One(Creates(req[r])) = 0 /\ One(Creates(q)) = 0
    BY <1>3, <1>5 DEF One, Waits, Creates
  <2>3. Cardinality(Entries) + Cardinality(InProgress) < MaxHandles
    BY <1>3 DEF Within
  <2>4. /\ Cardinality(Entries)' + Cardinality(Unanswered)' <= MaxHandles
        /\ Cardinality(canon'.progs) + Cardinality(ToCreate)' <= MaxId
    <3>1. Cardinality(Unanswered)' = Cardinality(Unanswered) + 1 /\ Cardinality(ToCreate)' = Cardinality(ToCreate)
      BY <2>1, <2>2, Waiting
    <3>2. Cardinality(Entries)' + Cardinality(Unanswered)' <= MaxHandles
      BY <1>7, <2>3, <3>1, Waiting, Constants
    <3> QED BY <1>0, <1>3, <3>1, <3>2 DEF Room
  <2>5. \A x \in Requests \ {r} : req[x].pc = "deriving" /\ req[x].base # None
             => sd'[req[x].client][req[x].base].snapshot = sd[req[x].client][req[x].base].snapshot
    <3> SUFFICES ASSUME NEW x \in Requests \ {r}, req[x].pc = "deriving", req[x].base # None
                 PROVE  sd'[req[x].client][req[x].base].snapshot = sd[req[x].client][req[x].base].snapshot
      OBVIOUS
    <3>1. req[x].client \in Clients /\ req[x].base \in Handles
      BY BasesUsed
    <3> QED BY <1>7, <3>1
  <2>6. "create" \in q.ask.ops =>
             Cardinality((IF q.base = None THEN Empty ELSE sd'[q.client][q.base].snapshot).progs) < MaxId
    <3> SUFFICES ASSUME "create" \in ask.ops
                 PROVE  Cardinality((IF b = None THEN Empty ELSE sd'[c][b].snapshot).progs) < MaxId
      BY <1>5
    <3>1. PICK s : s = IF b = None THEN Empty ELSE sd[c][b].snapshot
      OBVIOUS
    <3>2. s = IF b = None THEN Empty ELSE sd'[c][b].snapshot
      BY <1>7, <3>1
    <3>3. s \in Snapshot
      BY <1>0, <3>1, Records, Typed DEF Entry
    <3>4. Cardinality(s.progs) \in Nat
      BY <3>3, Constants, FS_Subset, FS_CardinalityType DEF Snapshot
    <3>5. Cardinality(s.progs) + Cardinality(Creating) < MaxId
      BY <1>3, <3>1 DEF Within
    <3>6. Cardinality(s.progs) < MaxId
      BY <3>4, <3>5, ToCreateCounted, Constants
    <3> QED BY <3>2, <3>6
  <2> QED BY <1>0, <1>6, <1>8, <2>4, <2>5, <2>6, RoomMoves
<1>13. CanonSound'
  BY <1>0, <1>3 DEF CanonSound
<1> QED BY <1>8, <1>9, <1>10, <1>11, <1>12, <1>13 DEF IInv

\* The answer of a request that has derived a snapshot, or failed to.
IsAnswer(r, h, q) == /\ q \in Record /\ q.pc = "done" /\ q.handle = h
                       /\ q.client = req[r].client /\ q.base = req[r].base

LEMMA AnswerIs ==
  ASSUME TypeOK, NEW r \in Requests, NEW h \in Handles \cup {None}, NEW q, q = Answer(req[r], h)
  PROVE  IsAnswer(r, h, q)
<1>1. req[r] \in Record
  BY Typed
<1>2. req[r].client \in Clients \cup {None} /\ req[r].base \in Handles \cup {None}
  BY <1>1 DEF Record
<1> QED BY <1>2, Idle DEF Answer, Record, IsAnswer

\* What follows for everything but handles and their entries.
AllButCounts(r, q) ==
  /\ Moves(r, q) /\ TypeOK' /\ RequestsOk' /\ Agreed' /\ SnapshotsSound' /\ CanonSound'
  /\ OpensCounted' /\ ProgramsOwned' /\ Room'

LEMMA Answered ==
  ASSUME IInv, NEW r \in Requests, req[r].pc = "deriving", NEW h \in Handles \cup {None},
         NEW q, q = Answer(req[r], h), req' = [req EXCEPT ![r] = q],
         UNCHANGED <<canon, open, pending, overlay, updateMu, conn, own, lsMu, held>>, crashed' \in BOOLEAN,
         sd' \in [Clients -> [Handles -> Entry]],
         \A d \in Clients, k \in Handles : Sound(sd'[d][k].snapshot, sd'[d][k].opens),
         \A x \in Requests : req[x].pc # "idle" /\ req[x].base # None
             => sd'[req[x].client][req[x].base].snapshot = sd[req[x].client][req[x].base].snapshot,
         Cardinality(Entries)' <= Cardinality(Entries) + 1, Cardinality(Entries)' \in Nat
  PROVE  AllButCounts(r, q)
<1>0. /\ TypeOK /\ RequestsOk /\ Agreed /\ SnapshotsSound /\ CanonSound /\ OpensCounted /\ ProgramsOwned
      /\ Room
  BY DEF IInv
<1>1. /\ q \in Record /\ q.pc = "done" /\ q.client = req[r].client /\ q.base = req[r].base
      /\ q.handle = h
  <2>1. IsAnswer(r, h, q)
    BY <1>0, AnswerIs
  <2> QED BY <2>1 DEF IsAnswer
<1>2. Moves(r, q)
  BY <1>0, Typed DEF Moves
<1>3. TypeOK'
  <2>1. req' \in [Requests -> Record]
    BY <1>0, <1>1, Typed
  <2> QED BY <1>0, <2>1 DEF TypeOK, Record
<1>4. RequestsOk' /\ Agreed' /\ SnapshotsSound'
  <2>1. Stays(r)
    BY <1>0, LockKept
  <2>2. Lawful(q, r)
    BY <1>0, <1>1 DEF Lawful, Updating, RequestsOk, RequestOf
  <2> QED BY <1>0, <1>2, <2>1, <2>2, RequestSteps
<1>5. OpensCounted' /\ ProgramsOwned'
  <2>1. KeepsAll
    BY <1>1, <1>2, NothingAdopted
  <2> QED BY <1>0, <2>1, CountsKept
<1>6. Room'
  <2>1. /\ Cardinality(Unanswered)' = Cardinality(Unanswered) - One(Waits(req[r])) + One(Waits(q))
        /\ Cardinality(ToCreate)' = Cardinality(ToCreate) - One(Creates(req[r])) + One(Creates(q))
        /\ Cardinality(Unanswered)' \in Nat /\ Cardinality(ToCreate)' \in Nat
    BY <1>2, WaitingMoves
  <2>2. One(Waits(req[r])) = 1 /\ One(Waits(q)) = 0 /\ One(Creates(req[r])) = 0 /\ One(Creates(q)) = 0
    BY <1>1 DEF One, Waits, Creates
  <2>3. Cardinality(Unanswered)' = Cardinality(Unanswered) - 1 /\ Cardinality(ToCreate)' = Cardinality(ToCreate)
    BY <2>1, <2>2, Waiting
  <2>4. /\ Cardinality(Entries)' + Cardinality(Unanswered)' <= MaxHandles
        /\ Cardinality(canon'.progs) + Cardinality(ToCreate)' <= MaxId
    BY <1>0, <2>1, <2>3, Waiting, Constants DEF Room
  <2> QED BY <1>0, <1>1, <1>2, <1>3, <2>4, RoomMoves
<1>7. CanonSound'
  BY <1>0 DEF CanonSound
<1> QED BY <1>2, <1>3, <1>4, <1>5, <1>6, <1>7 DEF AllButCounts

\* The snapshot that a request starts from, and what it makes of it.
Derived(opens, u) == u \in Snapshot /\ opens \in Opens /\ Sound(u, opens)

LEMMA Deriving ==
  ASSUME IInv, NEW r \in Requests, req[r].pc = "deriving", NEW c, c = req[r].client,
         NEW base, base = IF req[r].base = None THEN NoEntry ELSE sd[c][req[r].base],
         NEW ask, ask = [req[r].ask EXCEPT !.ops = Reconciled(@, base.opens)],
         NEW opens, opens = OpenState(req[r].ask.ops, base.opens),
         NEW u, u = Applied(base.snapshot, ask)
  PROVE  Derived(opens, u)
<1>0. TypeOK /\ RequestsOk /\ SnapshotsSound /\ Room
  BY DEF IInv
<1>1. req[r] \in Record /\ req[r].ask \in Ask /\ req[r].base \in Handles \cup {None} /\ req[r].client \in Clients
  <2>1. req[r] \in Record
    BY <1>0, Typed
  <2> QED BY <1>0, <2>1 DEF Record, RequestsOk, RequestOf
<1>2. base \in Entry /\ Sound(base.snapshot, base.opens) /\ base.snapshot = BaseOf(req[r])
  <2>1. CASE req[r].base = None
    <3>1. base = NoEntry
      BY <2>1
    <3>2. Cardinality(Clients) > 0
      <4>1. Cardinality(Clients) # 0
        BY <1>1, Constants, FS_EmptySet
      <4> QED BY <4>1, Constants
    <3> QED BY <2>1, <3>1, <3>2, Records DEF Sound, BaseOf
  <2>2. CASE req[r].base # None
    <3>1. req[r].base \in Handles /\ base = sd[req[r].client][req[r].base]
      BY <1>1, <2>2
    <3> QED BY <1>0, <1>1, <2>2, <3>1, Typed DEF SnapshotsSound, BaseOf
  <2> QED BY <2>1, <2>2
<1>3. base.snapshot \in Snapshot /\ base.opens \in Opens
  BY <1>2 DEF Entry
<1>4. req[r].ask.ops \in SUBSET Ops /\ req[r].ask.remove \in SUBSET Ids
  BY <1>1 DEF Ask
<1>5. PICK new : new = Reconciled(req[r].ask.ops, base.opens)
  OBVIOUS
<1>6. /\ new \subseteq Ops /\ opens \in Opens
      /\ "create" \in new <=> "create" \in req[r].ask.ops
      /\ Agrees(new, opens, base.opens)
  BY <1>3, <1>4, <1>5, Reconciling
<1>7. ask \in Ask /\ ask.ops = new
  BY <1>1, <1>5, <1>6 DEF Ask
<1>8. "create" \in ask.ops => Cardinality(base.snapshot.progs) < MaxId
  BY <1>0, <1>2, <1>6, <1>7 DEF Room
<1>9. PICK s : s = base.snapshot
  OBVIOUS
<1>10. PICK o : o = base.opens
  OBVIOUS
<1>11. /\ s \in Snapshot /\ ask \in Ask /\ opens \in Opens /\ Sound(s, o) /\ Agrees(ask.ops, opens, o)
       /\ "create" \in ask.ops => Cardinality(s.progs) < MaxId
       /\ u = Applied(s, ask)
  BY <1>2, <1>3, <1>6, <1>7, <1>8, <1>9, <1>10
<1>12. Results(s, ask, o, opens, u)
  BY <1>11, Applying
<1> QED BY <1>6, <1>12 DEF Results, Derived

LEMMA DeriveSteps == ASSUME IInv, NEW r \in Requests, Derive(r) PROVE IInv'
<1>0. /\ TypeOK /\ RequestsOk /\ SnapshotsSound /\ ReferencesKept /\ HandlesExact
  BY DEF IInv
<1>1. PICK c : c = req[r].client
  OBVIOUS
<1>2. PICK base : base = IF req[r].base = None THEN NoEntry ELSE sd[c][req[r].base]
  OBVIOUS
<1>3. PICK ask : ask = [req[r].ask EXCEPT !.ops = Reconciled(@, base.opens)]
  OBVIOUS
<1>4. PICK opens : opens = OpenState(req[r].ask.ops, base.opens)
  OBVIOUS
<1>5. PICK u : u = Applied(base.snapshot, ask)
  OBVIOUS
<1>6. PICK e : e = [refCount |-> 1, snapshot |-> u, opens |-> opens]
  OBVIOUS
<1>7. PICK h : h = FreeHandle(c)
  OBVIOUS
<1>8. /\ req[r].pc = "deriving" /\ UNCHANGED <<canon, open, pending, overlay, updateMu, conn, own, lsMu, held>>
      /\ \/ /\ req' = [req EXCEPT ![r] = Answer(req[r], None)]
            /\ UNCHANGED <<sd, crashed>>
         \/ /\ sd' = [sd EXCEPT ![c][h] = e]
            /\ req' = [req EXCEPT ![r] = Answer(req[r], h)]
            /\ crashed' = Panics(base.snapshot, ask)
  BY <1>1, <1>2, <1>3, <1>4, <1>5, <1>6, <1>7 DEF Derive
<1>9. c \in Clients /\ req[r].handle = None /\ None \notin Handles /\ req[r].pc # "idle"
  BY <1>0, <1>1, <1>8, Constants DEF RequestsOk, RequestOf
<1>10. \A d \in Clients : conn[d] # "open" => held'[d] = {}
  BY <1>0, <1>8 DEF ReferencesKept
<1>11. CASE /\ req' = [req EXCEPT ![r] = Answer(req[r], None)]
            /\ UNCHANGED <<sd, crashed>>
  <2>1. PICK q : q = Answer(req[r], None)
    OBVIOUS
  <2>2. /\ \A d \in Clients, k \in Handles : Sound(sd'[d][k].snapshot, sd'[d][k].opens)
        /\ Cardinality(Entries)' = Cardinality(Entries)
    BY <1>0, <1>11 DEF SnapshotsSound, Entries
  <2>3. Cardinality(Entries)' <= Cardinality(Entries) + 1 /\ Cardinality(Entries)' \in Nat
    BY <2>2, Waiting
  <2>4. /\ Moves(r, q) /\ TypeOK' /\ RequestsOk' /\ Agreed' /\ SnapshotsSound' /\ CanonSound'
        /\ OpensCounted' /\ ProgramsOwned' /\ Room'
    <3>1. sd' \in [Clients -> [Handles -> Entry]]
      BY <1>0, <1>11, Typed
    <3>2. crashed' \in BOOLEAN
      BY <1>0, <1>11 DEF TypeOK
    <3>3. \A x \in Requests : req[x].pc # "idle" /\ req[x].base # None
             => sd'[req[x].client][req[x].base].snapshot = sd[req[x].client][req[x].base].snapshot
      BY <1>11
    <3>4. None \in Handles \cup {None}
      OBVIOUS
    <3>5. AllButCounts(r, q)
      BY <1>8, <1>11, <2>1, <2>2, <2>3, <3>1, <3>2, <3>3, <3>4, Answered
    <3> QED BY <3>5 DEF AllButCounts
  <2>5. q.pc = "done" /\ q.client = c /\ q.base = req[r].base /\ q.handle = None
    <3>1. IsAnswer(r, None, q)
      BY <1>0, <2>1, AnswerIs
    <3> QED BY <1>1, <3>1 DEF IsAnswer
  <2>6. ASSUME NEW d \in Clients, NEW k \in Handles PROVE Tracks(d, k)
    <3>1. /\ Referenced(d, k) \in Nat /\ Referenced(d, k)' \in Nat
          /\ Referenced(d, k)' = Referenced(d, k) - One(k \in held[d]) + One(k \in held'[d])
                - One(Uses(req[r], d, k)) + One(Uses(q, d, k))
                - One(Answers(req[r], d, k)) + One(Answers(q, d, k))
      BY <2>4, ReferencedMoves
    <3>2. /\ Promised(d, k) \in Nat
          /\ Promised(d, k)' = Promised(d, k) - One(k \in held[d]) + One(k \in held'[d])
                - One(Answers(req[r], d, k)) + One(Answers(q, d, k))
      BY <2>4, PromisedMoves
    <3>3. /\ ~Answers(req[r], d, k) /\ ~Answers(q, d, k) /\ (Uses(q, d, k) <=> Uses(req[r], d, k))
      BY <1>1, <1>9, <2>5 DEF Uses, Answers
    <3>4. /\ One(Answers(req[r], d, k)) = 0 /\ One(Answers(q, d, k)) = 0
          /\ One(Uses(q, d, k)) = One(Uses(req[r], d, k)) /\ One(Uses(q, d, k)) \in 0..1
          /\ One(k \in held[d]) = One(k \in held'[d]) /\ One(k \in held[d]) \in 0..1
      BY <1>8, <3>3 DEF One
    <3>5. sd[d][k].refCount \in Nat /\ Promised(d, k) <= 1 /\ sd' = sd
      BY <1>0, <1>11, Typed DEF Entry, ReferencesKept
    <3> HIDE DEF Referenced, Promised
    <3>6. Referenced(d, k)' = Referenced(d, k) /\ Promised(d, k)' = Promised(d, k)
      BY <3>1, <3>2, <3>4
    <3> QED BY <3>1, <3>5, <3>6 DEF Tracks
  <2>7. ReferencesKept' /\ HandlesExact'
    BY <1>0, <1>8, <1>10, <2>4, <2>6, CountsTrack
  <2> QED BY <2>4, <2>7 DEF IInv
<1>12. CASE /\ sd' = [sd EXCEPT ![c][h] = e]
            /\ req' = [req EXCEPT ![r] = Answer(req[r], h)]
            /\ crashed' = Panics(base.snapshot, ask)
  <2>1. PICK q : q = Answer(req[r], h)
    OBVIOUS
  <2>2. u \in Snapshot /\ opens \in Opens /\ Sound(u, opens)
    <3>1. Derived(opens, u)
      BY <1>1, <1>2, <1>3, <1>4, <1>5, <1>8, Deriving
    <3> QED BY <3>1 DEF Derived
  <2>3. e \in Entry /\ e.refCount = 1 /\ e.snapshot = u /\ e.opens = opens
    BY <1>6, <2>2 DEF Entry
  <2>4. Registered(c, h, e)
    <3>1. Waits(req[r])
      BY <1>8 DEF Waits
    <3> QED BY <1>7, <1>9, <1>12, <2>2, <2>3, <3>1, Registering
  <2>5. crashed' \in BOOLEAN
    BY <1>12 DEF Panics
  <2>6. /\ Moves(r, q) /\ TypeOK' /\ RequestsOk' /\ Agreed' /\ SnapshotsSound' /\ CanonSound'
        /\ OpensCounted' /\ ProgramsOwned' /\ Room'
    <3>1. Cardinality(Entries)' <= Cardinality(Entries) + 1 /\ Cardinality(Entries)' \in Nat
      BY <2>4, Waiting DEF Registered
    <3>2. /\ h \in Handles \cup {None} /\ sd' \in [Clients -> [Handles -> Entry]]
          /\ \A d \in Clients, k \in Handles : Sound(sd'[d][k].snapshot, sd'[d][k].opens)
          /\ \A x \in Requests : req[x].pc # "idle" /\ req[x].base # None
               => sd'[req[x].client][req[x].base].snapshot = sd[req[x].client][req[x].base].snapshot
      BY <2>4 DEF Registered
    <3>3. AllButCounts(r, q)
      BY <1>8, <1>12, <2>1, <2>5, <3>1, <3>2, Answered
    <3> QED BY <3>3 DEF AllButCounts
  <2>7. q.pc = "done" /\ q.client = c /\ q.base = req[r].base /\ q.handle = h /\ h \in Handles
    <3>1. h \in Handles
      BY <2>4 DEF Registered
    <3>2. IsAnswer(r, h, q)
      BY <1>0, <2>1, <3>1, AnswerIs
    <3> QED BY <1>1, <3>1, <3>2 DEF IsAnswer
  <2>8. \A d \in Clients, k \in Handles : Tracks(d, k)
    <3>1. \A d \in Clients, k \in Handles :
             /\ Uses(q, d, k) <=> Uses(req[r], d, k)
             /\ ~Answers(req[r], d, k)
             /\ Answers(q, d, k) <=> (d = c /\ k = h)
      BY <1>1, <1>9, <2>7 DEF Uses, Answers
    <3>2. h \notin held'[c]
      <4>1. Promised(c, h) = 0
        BY <2>4 DEF Registered
      <4> QED BY <1>8, <4>1, UsingSets DEF Promised
    <3>3. \A d \in Clients, k \in Handles : d # c \/ k # h =>
            /\ sd'[d][k] = sd[d][k] /\ (k \in held'[d] <=> k \in held[d])
            /\ Uses(q, d, k) <=> Uses(req[r], d, k)
            /\ ~Answers(req[r], d, k) /\ ~Answers(q, d, k)
      BY <1>8, <2>4, <3>1 DEF Registered
    <3>4. /\ sd[c][h].refCount = 0 /\ Referenced(c, h) = 0 /\ Promised(c, h) = 0 /\ sd'[c][h].refCount = 1
      BY <2>3, <2>4 DEF Registered
    <3>5. ~Answers(req[r], c, h) /\ (Uses(q, c, h) <=> Uses(req[r], c, h)) /\ Answers(q, c, h)
      BY <1>9, <2>7, <3>1
    <3> QED BY <1>9, <2>6, <2>7, <3>2, <3>3, <3>4, <3>5, Delivering
  <2>9. ReferencesKept' /\ HandlesExact'
    BY <1>0, <1>8, <1>10, <2>6, <2>8, CountsTrack
  <2> QED BY <2>6, <2>9 DEF IInv
<1> QED BY <1>8, <1>11, <1>12

-----------------------------------------------------------------------------
(* Giving snapshots back.                                                       *)

LEMMA SoundNothing == ASSUME Clients # {} PROVE Sound(Empty, NoOpens)
<1>1. Cardinality(Clients) # 0
  BY Constants, FS_EmptySet
<1> QED BY <1>1, Constants, Records DEF Sound

ReleasedOne(c, b) ==
  /\ sd' \in [Clients -> [Handles -> Entry]]
  /\ \A d \in Clients, k \in Handles :
        /\ sd'[d][k].refCount = sd[d][k].refCount - One(d = c /\ k = b)
        /\ d # c \/ k # b \/ sd[d][k].refCount >= 2 => sd'[d][k].snapshot = sd[d][k].snapshot
        /\ Sound(sd'[d][k].snapshot, sd'[d][k].opens)
  /\ Cardinality(Entries)' <= Cardinality(Entries) /\ Cardinality(Entries)' \in Nat

LEMMA Releasing ==
  ASSUME IInv, NEW c \in Clients, NEW b \in Handles, sd[c][b].refCount >= 1,
         sd' = [sd EXCEPT ![c][b] = Released(sd[c][b])]
  PROVE  ReleasedOne(c, b)
<1>0. TypeOK /\ SnapshotsSound
  BY DEF IInv
<1>1. PICK e : e = Released(sd[c][b])
  OBVIOUS
<1>2. sd[c][b] \in Entry
  BY <1>0, Typed
<1>3. /\ e \in Entry /\ e.refCount = sd[c][b].refCount - 1
      /\ sd[c][b].refCount >= 2 => e.snapshot = sd[c][b].snapshot
      /\ Sound(e.snapshot, e.opens)
  <2>1. Sound(sd[c][b].snapshot, sd[c][b].opens)
    BY <1>0 DEF SnapshotsSound
  <2>2. CASE sd[c][b].refCount = 1
    <3>1. e = NoEntry
      BY <1>1, <2>2 DEF Released
    <3> QED BY <2>2, <3>1, Records, SoundNothing
  <2>3. CASE sd[c][b].refCount # 1
    <3>1. e = [sd[c][b] EXCEPT !.refCount = @ - 1]
      BY <1>1, <2>3 DEF Released
    <3>2. /\ e.refCount = sd[c][b].refCount - 1 /\ e.snapshot = sd[c][b].snapshot
          /\ e.opens = sd[c][b].opens /\ e \in Entry
      BY <1>2, <2>3, <3>1 DEF Entry
    <3> QED BY <2>1, <3>2
  <2> QED BY <2>2, <2>3
<1>4. EntryMoved(c, b, e)
  <2>1. sd' = [sd EXCEPT ![c][b] = e]
    BY <1>1
  <2> QED BY <1>0, <1>3, <2>1, EntriesMove
<1>5. ASSUME NEW d \in Clients, NEW k \in Handles
      PROVE  /\ sd'[d][k].refCount = sd[d][k].refCount - One(d = c /\ k = b)
             /\ d # c \/ k # b \/ sd[d][k].refCount >= 2 => sd'[d][k].snapshot = sd[d][k].snapshot
             /\ Sound(sd'[d][k].snapshot, sd'[d][k].opens)
  <2>1. CASE d = c /\ k = b
    BY <1>2, <1>3, <1>4, <2>1 DEF EntryMoved, One, Entry
  <2>2. CASE d # c \/ k # b
    <3>1. sd'[d][k] = sd[d][k] /\ One(d = c /\ k = b) = 0
      BY <1>4, <2>2 DEF EntryMoved, One
    <3>2. sd[d][k].refCount \in Nat /\ Sound(sd[d][k].snapshot, sd[d][k].opens)
      BY <1>0, Typed DEF Entry, SnapshotsSound
    <3> QED BY <3>1, <3>2
  <2> QED BY <2>1, <2>2
<1>6. Cardinality(Entries)' <= Cardinality(Entries) /\ Cardinality(Entries)' \in Nat
  <2>1. One(sd[c][b].refCount > 0) = 1 /\ One(e.refCount > 0) \in 0..1
    BY <1>2 DEF One, Entry
  <2> QED BY <1>4, <2>1, Waiting DEF EntryMoved
<1> QED BY <1>4, <1>5, <1>6 DEF ReleasedOne, EntryMoved

LEMMA EndSteps == ASSUME IInv, NEW r \in Requests, End(r) PROVE IInv'
<1>0. /\ TypeOK /\ RequestsOk /\ Agreed /\ SnapshotsSound /\ CanonSound /\ OpensCounted /\ ProgramsOwned
      /\ ReferencesKept /\ HandlesExact /\ Room
  BY DEF IInv
<1>1. PICK q : q = NoRequest
  OBVIOUS
<1>2. PICK c : c = req[r].client
  OBVIOUS
<1>3. PICK b : b = req[r].base
  OBVIOUS
<1>4. PICK h : h = req[r].handle
  OBVIOUS
<1>5. /\ req[r].pc = "done" /\ req' = [req EXCEPT ![r] = q]
      /\ b = None => sd' = sd
      /\ b # None => sd' = [sd EXCEPT ![c][b] = Released(@)]
      /\ h = None => held' = held
      /\ h # None => held' = Given(c, h)
      /\ UNCHANGED <<canon, open, pending, overlay, updateMu, conn, own, lsMu, crashed>>
  BY <1>1, <1>2, <1>3, <1>4 DEF End
<1>6. q \in Record /\ q.pc = "idle" /\ q.handle = None
  BY <1>1, Idle
<1>7. c \in Clients /\ b \in Handles \cup {None} /\ h \in Handles \cup {None}
  <2>1. req[r] \in Record
    BY <1>0, Typed
  <2> QED BY <1>0, <1>2, <1>3, <1>4, <1>5, <2>1 DEF Record, RequestsOk, RequestOf
<1>8. Moves(r, q)
  BY <1>0, <1>5, Typed DEF Moves
<1>9. /\ sd' \in [Clients -> [Handles -> Entry]]
      /\ \A d \in Clients, k \in Handles :
            /\ sd'[d][k].refCount = sd[d][k].refCount - One(d = c /\ k = b)
            /\ d # c \/ k # b \/ sd[d][k].refCount >= 2 => sd'[d][k].snapshot = sd[d][k].snapshot
            /\ Sound(sd'[d][k].snapshot, sd'[d][k].opens)
      /\ Cardinality(Entries)' <= Cardinality(Entries) /\ Cardinality(Entries)' \in Nat
  <2>1. CASE b = None
    <3>1. \A d \in Clients, k \in Handles : One(d = c /\ k = b) = 0 /\ sd[d][k].refCount \in Nat
      BY <1>0, <2>1, Constants, Typed DEF One, Entry
    <3>2. Cardinality(Entries)' = Cardinality(Entries)
      BY <1>5, <2>1 DEF Entries
    <3> QED BY <1>0, <1>5, <2>1, <3>1, <3>2, Typed, Waiting DEF SnapshotsSound
  <2>2. CASE b # None
    <3>1. b \in Handles /\ sd[c][b].refCount >= 1
      BY <1>2, <1>3, <1>5, <2>2, BasesUsed
    <3>2. sd' = [sd EXCEPT ![c][b] = Released(sd[c][b])]
      <4>1. sd \in [Clients -> [Handles -> Entry]]
        BY <1>0, Typed
      <4> QED BY <1>5, <1>7, <2>2, <3>1, <4>1
    <3>3. ReleasedOne(c, b)
      BY <1>7, <3>1, <3>2, Releasing
    <3> QED BY <3>3 DEF ReleasedOne
  <2> QED BY <2>1, <2>2
<1>10. /\ held' \in [Clients -> SUBSET Handles]
       /\ \A d \in Clients : conn[d] # "open" => held'[d] = {}
       /\ \A d \in Clients, k \in Handles :
            IF conn[d] = "open" THEN One(k \in held'[d]) = One(k \in held[d]) + One(d = c /\ k = h)
                                ELSE One(k \in held'[d]) = One(k \in held[d])
  <2>1. CASE h = None
    <3>1. \A d \in Clients, k \in Handles : One(d = c /\ k = h) = 0 /\ One(k \in held[d]) \in 0..1
      BY <2>1, Constants DEF One
    <3>2. held' \in [Clients -> SUBSET Handles]
      BY <1>0, <1>5, <2>1 DEF TypeOK
    <3>3. \A d \in Clients : conn[d] # "open" => held'[d] = {}
      BY <1>0, <1>5, <2>1 DEF ReferencesKept
    <3> QED BY <1>5, <2>1, <3>1, <3>2, <3>3
  <2>2. CASE h # None
    <3>1. /\ held' \in [Clients -> SUBSET Handles]
          /\ \A d \in Clients, k \in Handles : d # c \/ k # h => (k \in held'[d] <=> k \in held[d])
          /\ conn[c] = "open" => h \in held'[c]
          /\ conn[c] # "open" => held' = held
          /\ \A d \in Clients : conn[d] # "open" => held'[d] = {}
      BY <1>0, <1>5, <1>7, <2>2, Giving
    <3>2. h \notin held[c]
      <4>1. r \in Answering(c, h)
        BY <1>2, <1>4, <1>5, UsingSets DEF Answers
      <4>2. Cardinality(Answering(c, h)) # 0 /\ Cardinality(Answering(c, h)) \in Nat
        BY <4>1, UsingSets, FS_EmptySet
      <4>3. Promised(c, h) <= 1
        BY <1>0, <1>7, <2>2 DEF ReferencesKept
      <4> QED BY <4>2, <4>3 DEF Promised
    <3>3. ASSUME NEW d \in Clients, NEW k \in Handles
          PROVE  IF conn[d] = "open" THEN One(k \in held'[d]) = One(k \in held[d]) + One(d = c /\ k = h)
                                     ELSE One(k \in held'[d]) = One(k \in held[d])
      <4>1. CASE d = c /\ k = h
        BY <3>1, <3>2, <4>1 DEF One
      <4>2. CASE d # c \/ k # h
        <5>1. k \in held'[d] <=> k \in held[d]
          BY <3>1, <4>2
        <5> QED BY <4>2, <5>1 DEF One
      <4> QED BY <4>1, <4>2
    <3> QED BY <3>1, <3>3
  <2> QED BY <2>1, <2>2
<1>11. TypeOK'
  <2>1. req' \in [Requests -> Record]
    BY <1>0, <1>5, <1>6, Typed
  <2> QED BY <1>0, <1>5, <1>9, <1>10, <2>1 DEF TypeOK, Record
<1>12. RequestsOk' /\ Agreed' /\ SnapshotsSound'
  <2>1. Stays(r)
    BY <1>0, <1>5, LockKept
  <2>2. Lawful(q, r)
    BY <1>6 DEF Lawful, Updating
  <2> QED BY <1>0, <1>5, <1>8, <1>9, <2>1, <2>2, RequestSteps
<1>13. OpensCounted' /\ ProgramsOwned'
  <2>1. KeepsAll
    BY <1>5, <1>6, <1>8, NothingAdopted
  <2> QED BY <1>0, <1>5, <2>1, CountsKept
<1>14. ReferencesKept' /\ HandlesExact'
  <2>1. ASSUME NEW d \in Clients, NEW k \in Handles PROVE Tracks(d, k)
    <3>1. /\ Referenced(d, k) \in Nat /\ Referenced(d, k)' \in Nat
          /\ Referenced(d, k)' = Referenced(d, k) - One(k \in held[d]) + One(k \in held'[d])
                - One(Uses(req[r], d, k)) + One(Uses(q, d, k))
                - One(Answers(req[r], d, k)) + One(Answers(q, d, k))
      BY <1>8, ReferencedMoves
    <3>2. /\ Promised(d, k) \in Nat
          /\ Promised(d, k)' = Promised(d, k) - One(k \in held[d]) + One(k \in held'[d])
                - One(Answers(req[r], d, k)) + One(Answers(q, d, k))
      BY <1>8, PromisedMoves
    <3>3. /\ Uses(req[r], d, k) <=> (d = c /\ k = b)
          /\ Answers(req[r], d, k) <=> (d = c /\ k = h)
          /\ ~Uses(q, d, k) /\ ~Answers(q, d, k)
      BY <1>2, <1>3, <1>4, <1>5, <1>6 DEF Uses, Answers
    <3>4. /\ One(Uses(req[r], d, k)) = One(d = c /\ k = b) /\ One(Answers(req[r], d, k)) = One(d = c /\ k = h)
          /\ One(Uses(q, d, k)) = 0 /\ One(Answers(q, d, k)) = 0
          /\ One(d = c /\ k = b) \in 0..1 /\ One(d = c /\ k = h) \in 0..1 /\ One(k \in held[d]) \in 0..1
      BY <3>3 DEF One
    <3>5. sd[d][k].refCount \in Nat /\ Promised(d, k) <= 1
      BY <1>0, Typed DEF Entry, ReferencesKept
    <3>6. sd'[d][k].refCount = sd[d][k].refCount - One(d = c /\ k = b)
      BY <1>9
    <3> HIDE DEF Referenced, Promised
    <3>7. CASE conn[d] = "open"
      <4>1. One(k \in held'[d]) = One(k \in held[d]) + One(d = c /\ k = h)
        BY <1>10, <3>7
      <4>2. Referenced(d, k)' = Referenced(d, k) - One(d = c /\ k = b) /\ Promised(d, k)' = Promised(d, k)
        BY <3>1, <3>2, <3>4, <4>1
      <4> QED BY <3>1, <3>4, <3>5, <3>6, <4>2 DEF Tracks
    <3>8. CASE conn[d] # "open"
      <4>1. One(k \in held'[d]) = One(k \in held[d])
        BY <1>10, <3>8
      <4>2. /\ Referenced(d, k)' = Referenced(d, k) - One(d = c /\ k = b) - One(d = c /\ k = h)
            /\ Promised(d, k)' = Promised(d, k) - One(d = c /\ k = h)
        BY <3>1, <3>2, <3>4, <4>1
      <4> QED BY <3>1, <3>2, <3>4, <3>5, <3>6, <3>8, <4>2 DEF Tracks
    <3> QED BY <3>7, <3>8
  <2> QED BY <1>0, <1>5, <1>10, <1>11, <2>1, CountsTrack
<1>15. Room'
  <2>1. /\ Cardinality(Unanswered)' = Cardinality(Unanswered) - One(Waits(req[r])) + One(Waits(q))
        /\ Cardinality(ToCreate)' = Cardinality(ToCreate) - One(Creates(req[r])) + One(Creates(q))
        /\ Cardinality(Unanswered)' \in Nat /\ Cardinality(ToCreate)' \in Nat
    BY <1>8, WaitingMoves
  <2>2. One(Waits(req[r])) = 0 /\ One(Waits(q)) = 0 /\ One(Creates(req[r])) = 0 /\ One(Creates(q)) = 0
    BY <1>5, <1>6 DEF One, Waits, Creates
  <2>3. Cardinality(Unanswered)' = Cardinality(Unanswered) /\ Cardinality(ToCreate)' = Cardinality(ToCreate)
    BY <2>1, <2>2, Waiting
  <2>4. /\ Cardinality(Entries)' + Cardinality(Unanswered)' <= MaxHandles
        /\ Cardinality(canon'.progs) + Cardinality(ToCreate)' <= MaxId
    BY <1>0, <1>5, <1>9, <2>3, Waiting, Constants DEF Room
  <2>5. ASSUME NEW x \in Requests \ {r}, req[x].pc = "deriving", req[x].base # None
        PROVE  sd'[req[x].client][req[x].base].snapshot = sd[req[x].client][req[x].base].snapshot
    <3>1. req[x].client \in Clients /\ req[x].base \in Handles
      BY <2>5, BasesUsed
    <3>2. CASE req[x].client # c \/ req[x].base # b
      BY <1>9, <3>1, <3>2
    <3>3. CASE req[x].client = c /\ req[x].base = b
      <4>1. \A y \in Requests \ {r} : req[y].pc # "idle" /\ req[y].client = c /\ req[y].base = b
                => Referenced(c, b) >= 2 /\ sd[c][b].refCount >= 2
        BY <1>2, <1>3, <1>5, <2>5, <3>3, BasesUsed
      <4>2. sd[c][b].refCount >= 2
        BY <2>5, <3>3, <4>1
      <4> QED BY <1>9, <3>1, <3>3, <4>2
    <3> QED BY <3>2, <3>3
  <2> QED BY <1>0, <1>6, <1>8, <1>11, <2>4, <2>5, RoomMoves
<1>16. CanonSound'
  BY <1>0, <1>5 DEF CanonSound
<1> QED BY <1>11, <1>12, <1>13, <1>14, <1>15, <1>16 DEF IInv

-----------------------------------------------------------------------------
(* Clients.                                                                     *)

\* When no request moves, only what is held changes the references.
LEMMA Resting ==
  ASSUME req' = req, NEW c, NEW h
  PROVE  /\ Referenced(c, h) \in Nat /\ Referenced(c, h)' \in Nat
         /\ Referenced(c, h)' = Referenced(c, h) - One(h \in held[c]) + One(h \in held'[c])
         /\ Promised(c, h) \in Nat
         /\ Promised(c, h)' = Promised(c, h) - One(h \in held[c]) + One(h \in held'[c])
         /\ Adopted(c)' = Adopted(c)
         /\ Cardinality(Unanswered)' = Cardinality(Unanswered)
         /\ Cardinality(ToCreate)' = Cardinality(ToCreate)
<1>1. Cardinality(Using(c, h)) \in Nat /\ Cardinality(Answering(c, h)) \in Nat
  BY UsingSets
<1>2. Using(c, h)' = Using(c, h) /\ Answering(c, h)' = Answering(c, h) /\ Adopted(c)' = Adopted(c)
  BY DEF Using, Answering, InProgress, Adopted
<1>3. Cardinality(Using(c, h))' = Cardinality(Using(c, h))
      /\ Cardinality(Answering(c, h))' = Cardinality(Answering(c, h))
  BY <1>2
<1>4. /\ Referenced(c, h) = One(h \in held[c]) + Cardinality(Using(c, h)) + Cardinality(Answering(c, h))
      /\ Referenced(c, h)' = One(h \in held'[c]) + Cardinality(Using(c, h))' + Cardinality(Answering(c, h))'
  BY DEF Referenced, One
<1>5. /\ Promised(c, h) = One(h \in held[c]) + Cardinality(Answering(c, h))
      /\ Promised(c, h)' = One(h \in held'[c]) + Cardinality(Answering(c, h))'
  BY DEF Promised, One
<1>6. One(h \in held[c]) \in 0..1 /\ One(h \in held'[c]) \in 0..1
  BY DEF One
<1>7. Cardinality(Unanswered)' = Cardinality(Unanswered) /\ Cardinality(ToCreate)' = Cardinality(ToCreate)
  BY DEF Unanswered, ToCreate
<1> HIDE DEF Referenced, Promised
<1> QED BY <1>1, <1>2, <1>3, <1>4, <1>5, <1>6, <1>7

LEMMA RestingKeeps ==
  ASSUME req' = req, own' = own
  PROVE  KeepsAll
<1>1. ASSUME NEW c \in Clients
      PROVE  /\ HasProject(c)' <=> HasProject(c)
             /\ HasFile(c)' <=> HasFile(c)
             /\ HasPrograms(c)' = HasPrograms(c)
  <2>1. Adopted(c)' = Adopted(c)
    BY Resting
  <2> QED BY <2>1, SameHas
<1> QED BY <1>1 DEF KeepsAll

LEMMA ReleaseSteps ==
  ASSUME IInv, NEW c \in Clients, NEW h \in Handles, Release(c, h)
  PROVE  IInv'
<1>0. /\ TypeOK /\ RequestsOk /\ Agreed /\ SnapshotsSound /\ CanonSound /\ OpensCounted /\ ProgramsOwned
      /\ ReferencesKept /\ HandlesExact /\ Room
  BY DEF IInv
<1>1. /\ conn[c] = "open" /\ h \in held[c] /\ held' = [held EXCEPT ![c] = held[c] \ {h}]
      /\ UNCHANGED <<canon, open, pending, overlay, updateMu, conn, own, lsMu, req, crashed>>
  BY DEF Release
<1>2. sd[c][h].refCount >= 1
  <2>1. sd[c][h].refCount = Referenced(c, h)
    BY <1>0, <1>1, Exactly
  <2> QED BY <1>1, <2>1, UsingSets DEF Referenced
<1>3. ReleasedOne(c, h)
  <2>1. sd' = [sd EXCEPT ![c][h] = Released(@)]
    BY DEF Release
  <2>2. sd' = [sd EXCEPT ![c][h] = Released(sd[c][h])]
    BY <1>0, <2>1, Typed
  <2> QED BY <1>2, <2>2, Releasing
<1>4. /\ held' \in [Clients -> SUBSET Handles]
      /\ \A d \in Clients : conn[d] # "open" => held'[d] = {}
      /\ \A d \in Clients, k \in Handles :
            One(k \in held'[d]) = One(k \in held[d]) - One(d = c /\ k = h)
  <2>1. held \in [Clients -> SUBSET Handles] /\ \A d \in Clients : conn[d] # "open" => held[d] = {}
    BY <1>0 DEF TypeOK, ReferencesKept
  <2>2. held' \in [Clients -> SUBSET Handles] /\ held'[c] = held[c] \ {h}
        /\ \A d \in Clients \ {c} : held'[d] = held[d]
    BY <1>1, <2>1
  <2>3. ASSUME NEW d \in Clients, NEW k \in Handles
        PROVE  One(k \in held'[d]) = One(k \in held[d]) - One(d = c /\ k = h)
    <3>1. CASE d = c /\ k = h
      BY <1>1, <2>2, <3>1 DEF One
    <3>2. CASE d # c \/ k # h
      <4>1. k \in held'[d] <=> k \in held[d]
        BY <2>2, <3>2
      <4> QED BY <3>2, <4>1 DEF One
    <3> QED BY <3>1, <3>2
  <2> QED BY <1>1, <2>1, <2>2, <2>3
<1>5. TypeOK'
  BY <1>0, <1>1, <1>3, <1>4 DEF TypeOK, ReleasedOne
<1>6. RequestsOk' /\ Agreed'
  <2>1. RequestsOk'
    BY <1>0, <1>1 DEF RequestsOk, RequestOf
  <2>2. Agreed'
    BY <1>0, <1>1 DEF Agreed, AgreedOf
  <2> QED BY <2>1, <2>2
<1>7. SnapshotsSound'
  <2>1. \A d \in Clients, k \in Handles : Sound(sd'[d][k].snapshot, sd'[d][k].opens)
    BY <1>3 DEF ReleasedOne
  <2>2. \A r \in Requests : req'[r].pc = "adopted" => Sound(req'[r].snapshot, req'[r].opens)
    BY <1>0, <1>1 DEF SnapshotsSound
  <2> QED BY <2>1, <2>2 DEF SnapshotsSound, Sound
<1>8. OpensCounted' /\ ProgramsOwned'
  BY <1>0, <1>1, RestingKeeps, CountsKept
<1>9. ReferencesKept' /\ HandlesExact'
  <2>1. ASSUME NEW d \in Clients, NEW k \in Handles PROVE Tracks(d, k)
    <3>1. /\ Referenced(d, k) \in Nat /\ Referenced(d, k)' \in Nat
          /\ Referenced(d, k)' = Referenced(d, k) - One(k \in held[d]) + One(k \in held'[d])
          /\ Promised(d, k) \in Nat
          /\ Promised(d, k)' = Promised(d, k) - One(k \in held[d]) + One(k \in held'[d])
      BY <1>1, Resting
    <3>2. One(k \in held'[d]) = One(k \in held[d]) - One(d = c /\ k = h)
      BY <1>4
    <3>3. One(k \in held[d]) \in 0..1 /\ One(d = c /\ k = h) \in 0..1
      BY DEF One
    <3>4. sd[d][k].refCount \in Nat /\ Promised(d, k) <= 1
      BY <1>0, Typed DEF Entry, ReferencesKept
    <3>5. sd'[d][k].refCount = sd[d][k].refCount - One(d = c /\ k = h)
      BY <1>3 DEF ReleasedOne
    <3> HIDE DEF Referenced, Promised
    <3>6. /\ Referenced(d, k)' = Referenced(d, k) - One(d = c /\ k = h)
          /\ Promised(d, k)' = Promised(d, k) - One(d = c /\ k = h)
      BY <3>1, <3>2, <3>3
    <3> QED BY <3>1, <3>3, <3>4, <3>5, <3>6 DEF Tracks
  <2> QED BY <1>0, <1>1, <1>4, <1>5, <2>1, CountsTrack
<1>10. Room'
  <2>1. /\ Cardinality(Entries)' <= Cardinality(Entries) /\ Cardinality(Entries)' \in Nat
    BY <1>3 DEF ReleasedOne
  <2>2. /\ Cardinality(Unanswered)' = Cardinality(Unanswered)
        /\ Cardinality(ToCreate)' = Cardinality(ToCreate)
    BY <1>1, Resting
  <2>3. Cardinality(Entries)' + Cardinality(Unanswered)' <= MaxHandles
    BY <1>0, <2>1, <2>2, Waiting, Constants DEF Room
  <2>4. Cardinality(canon'.progs) + Cardinality(ToCreate)' <= MaxId
    BY <1>0, <1>1, <2>2 DEF Room
  <2>5. ASSUME NEW x \in Requests, req[x].pc = "deriving", "create" \in req[x].ask.ops
        PROVE  Cardinality((IF req[x].base = None THEN Empty
                            ELSE sd'[req[x].client][req[x].base].snapshot).progs) < MaxId
    <3>1. Cardinality((IF req[x].base = None THEN Empty
                       ELSE sd[req[x].client][req[x].base].snapshot).progs) < MaxId
      BY <1>0, <2>5 DEF Room, BaseOf
    <3>2. CASE req[x].base = None
      BY <3>1, <3>2
    <3>3. CASE req[x].base # None
      <4>1. /\ req[x].client \in Clients /\ req[x].base \in Handles
            /\ req[x].base \in held[req[x].client] => sd[req[x].client][req[x].base].refCount >= 2
        BY <2>5, <3>3, BasesUsed
      <4>2. req[x].client # c \/ req[x].base # h \/ sd[req[x].client][req[x].base].refCount >= 2
        BY <1>1, <4>1
      <4>3. sd'[req[x].client][req[x].base].snapshot = sd[req[x].client][req[x].base].snapshot
        BY <1>3, <4>1, <4>2 DEF ReleasedOne
      <4> QED BY <3>1, <3>3, <4>3
    <3> QED BY <3>2, <3>3
  <2>6. req' = req
    BY <1>1
  <2> QED BY <2>3, <2>4, <2>5, <2>6 DEF Room, BaseOf
<1>11. CanonSound'
  BY <1>0, <1>1 DEF CanonSound
<1> QED BY <1>5, <1>6, <1>7, <1>8, <1>9, <1>10, <1>11 DEF IInv

LEMMA DisconnectSteps == ASSUME IInv, NEW c \in Clients, Disconnect(c) PROVE IInv'
<1>0. /\ TypeOK /\ RequestsOk /\ Agreed /\ SnapshotsSound /\ CanonSound /\ OpensCounted /\ ProgramsOwned
      /\ ReferencesKept /\ HandlesExact /\ Room
  BY DEF IInv
<1>1. /\ conn[c] = "open" /\ conn' = [conn EXCEPT ![c] = "closing"] /\ held' = [held EXCEPT ![c] = {}]
      /\ UNCHANGED <<canon, open, pending, overlay, updateMu, own, lsMu, sd, req, crashed>>
  BY DEF Disconnect
<1>2. /\ conn' \in [Clients -> {"open", "closing", "closed", "kept"}] /\ conn'[c] = "closing"
      /\ \A d \in Clients \ {c} : conn'[d] = conn[d]
  BY <1>0, <1>1 DEF TypeOK
<1>3. /\ held' \in [Clients -> SUBSET Handles] /\ held'[c] = {}
      /\ \A d \in Clients \ {c} : held'[d] = held[d]
  BY <1>0, <1>1 DEF TypeOK
<1>4. TypeOK'
  BY <1>0, <1>1, <1>2, <1>3 DEF TypeOK
<1>5. RequestsOk'
  <2>1. ASSUME NEW r \in Requests PROVE RequestOf(req[r], r)'
    <3>1. RequestOf(req[r], r)
      BY <1>0 DEF RequestsOk
    <3>2. req[r].pc # "idle" => conn'[req[r].client] \in {"open", "closing"}
      BY <1>2, <3>1 DEF RequestOf
    <3> QED BY <1>1, <3>1, <3>2 DEF RequestOf
  <2> QED BY <2>1 DEF RequestsOk
<1>6. Agreed' /\ SnapshotsSound' /\ CanonSound'
  <2>1. Agreed'
    BY <1>0, <1>1 DEF Agreed, AgreedOf
  <2>2. SnapshotsSound'
    BY <1>0, <1>1 DEF SnapshotsSound, Sound
  <2>3. CanonSound'
    BY <1>0, <1>1 DEF CanonSound
  <2> QED BY <2>1, <2>2, <2>3
<1>7. OpensCounted' /\ ProgramsOwned'
  BY <1>0, <1>1, RestingKeeps, CountsKept
<1>8. ASSUME NEW d \in Clients, NEW k \in Handles
      PROVE  /\ sd[d][k].refCount >= Referenced(d, k)' /\ Promised(d, k)' <= 1
             /\ conn'[d] = "open" => sd[d][k].refCount = Referenced(d, k)'
  <2>1. /\ Referenced(d, k) \in Nat /\ Referenced(d, k)' \in Nat
        /\ Referenced(d, k)' = Referenced(d, k) - One(k \in held[d]) + One(k \in held'[d])
        /\ Promised(d, k) \in Nat
        /\ Promised(d, k)' = Promised(d, k) - One(k \in held[d]) + One(k \in held'[d])
    BY <1>1, Resting
  <2>2. /\ One(k \in held'[d]) <= One(k \in held[d])
        /\ d # c => One(k \in held'[d]) = One(k \in held[d])
        /\ One(k \in held[d]) \in 0..1 /\ One(k \in held'[d]) \in 0..1
    BY <1>3 DEF One
  <2>3. sd[d][k].refCount \in Nat /\ sd[d][k].refCount >= Referenced(d, k) /\ Promised(d, k) <= 1
    BY <1>0, Typed DEF Entry, ReferencesKept
  <2>4. conn'[d] = "open" => d # c /\ sd[d][k].refCount = Referenced(d, k)
    BY <1>0, <1>2, Exactly
  <2> HIDE DEF Referenced, Promised
  <2> QED BY <2>1, <2>2, <2>3, <2>4
<1>9. ReferencesKept' /\ HandlesExact'
  <2>1. \A d \in Clients : conn'[d] # "open" => held'[d] = {}
    BY <1>0, <1>2, <1>3 DEF ReferencesKept
  <2>2. sd' = sd
    BY <1>1
  <2>3. ReferencesKept'
    BY <1>8, <2>1, <2>2 DEF ReferencesKept
  <2>4. HandlesExact'
    BY <1>8, <2>2, ExactlyNext
  <2> QED BY <2>3, <2>4
<1>10. Room'
  BY <1>0, <1>1 DEF Room, Entries, Unanswered, ToCreate, BaseOf
<1> QED BY <1>4, <1>5, <1>6, <1>7, <1>9, <1>10 DEF IInv

\* What the last update of a client does.
Leaves(c) ==
  /\ canon' \in Snapshot /\ CanonSound' /\ OpensCounted' /\ ProgramsOwned'
  /\ canon'.progs \subseteq canon.progs
  /\ own' \in [Clients -> [project : BOOLEAN, file : BOOLEAN, progs : SUBSET Ids]]
  /\ \A d \in Clients \ {c} : own'[d] = own[d]

LEMMA LeavingOthers ==
  ASSUME IInv, NEW c \in Clients, req' = req, own' = own, canon' \in Snapshot,
         Needed(canon') => canon'.loaded, overlay' => canon'.overlay,
         canon'.count = canon.count, canon'.files = canon.files, canon'.progs = canon.progs,
         canon'.broken = canon.broken
  PROVE  Leaves(c)
<1>1. TypeOK /\ CanonSound /\ OpensCounted /\ ProgramsOwned
  BY DEF IInv
<1>2. OpensCounted' /\ ProgramsOwned'
  BY <1>1, RestingKeeps, CountsKept
<1>3. CanonSound'
  BY <1>1 DEF CanonSound
<1> QED BY <1>1, <1>2, <1>3, Typed DEF Leaves

LEMMA LeavingAll ==
  ASSUME IInv, NEW c \in Clients, Adopted(c) = {}, req' = req,
         NEW p, p = Processed, overlay' = p, canon' = Applied(Flushed(canon, p), CloseAll(c)), own' = [own EXCEPT ![c] = NothingOwned]
  PROVE  Leaves(c) /\ canon'.overlay = overlay'
<1>0. TypeOK /\ CanonSound /\ OpensCounted /\ ProgramsOwned
  BY DEF IInv
<1>1. PICK s : s = Flushed(canon, p)
  OBVIOUS
<1>2. PICK ask : ask = CloseAll(c)
  OBVIOUS
<1>3. PICK o : o = own[c]
  OBVIOUS
<1>4. PICK opens : opens = NoOpens
  OBVIOUS
<1>5. /\ s \in Snapshot /\ s.overlay = p /\ s.count = canon.count /\ s.files = canon.files
      /\ s.progs = canon.progs /\ s.broken = canon.broken /\ (Needed(s) => s.loaded)
  BY <1>0, <1>1, Processing, Flushing
<1>6. o.project \in BOOLEAN /\ o.file \in BOOLEAN /\ o.progs \in SUBSET Ids
  BY <1>0, <1>3, Typed
<1>7. /\ HasProject(c) <=> o.project
      /\ HasFile(c) <=> o.file
      /\ HasPrograms(c) = o.progs
  BY <1>3, Owning
<1>8. /\ ask \in Ask /\ ask.remove = o.progs /\ "create" \notin ask.ops
      /\ "openProject" \notin ask.ops /\ "openFile" \notin ask.ops
      /\ "closeProject" \in ask.ops <=> o.project
      /\ "closeFile" \in ask.ops <=> o.file
  <2> DEFINE x == (IF o.project THEN {"closeProject"} ELSE {}) \cup (IF o.file THEN {"closeFile"} ELSE {})
  <2>1. ask.ops = x /\ ask.remove = o.progs /\ ask = [ops |-> x, remove |-> o.progs]
    BY <1>2, <1>3 DEF CloseAll
  <2>2. /\ x \in SUBSET Ops /\ "create" \notin x /\ "openProject" \notin x /\ "openFile" \notin x
        /\ "closeProject" \in x <=> o.project
        /\ "closeFile" \in x <=> o.file
    BY DEF Ops
  <2> HIDE DEF x
  <2> QED BY <1>6, <2>1, <2>2 DEF Ask
<1>9. opens \in Opens /\ ~opens.project /\ ~opens.file
  BY <1>4, Records
<1>10. Agrees(ask.ops, opens, o)
  BY <1>8, <1>9 DEF Agrees
<1>11. Sound(s, o)
  BY <1>5, <1>7, CanonSoundFor
<1>12. PICK u : u = Applied(s, ask)
  OBVIOUS
<1>13. Results(s, ask, o, opens, u)
  BY <1>5, <1>8, <1>9, <1>10, <1>11, <1>12, Applying
<1>14. canon' = u
  BY <1>1, <1>2, <1>12
<1>15. /\ u \in Snapshot /\ Sound(u, opens)
       /\ u.count = s.count - One(o.project) + One(opens.project)
       /\ u.files = s.files - One(o.file) + One(opens.file)
       /\ u.overlay = s.overlay /\ u.progs = s.progs \ o.progs /\ u.broken = s.broken \ o.progs
  <2>1. Created(s, ask) = {}
    BY <1>8, <1>13 DEF Results
  <2> QED BY <1>8, <1>13, <2>1 DEF Results
<1>16. CanonSound'
  <2>1. Needed(canon') => canon'.loaded
    BY <1>14, <1>15 DEF Sound
  <2>2. overlay' => canon'.overlay
    BY <1>5, <1>14, <1>15
  <2>3. canon'.broken \subseteq canon'.progs
    BY <1>0, <1>5, <1>14, <1>15 DEF CanonSound
  <2> QED BY <2>1, <2>2, <2>3 DEF CanonSound
<1>17. /\ own' \in [Clients -> [project : BOOLEAN, file : BOOLEAN, progs : SUBSET Ids]]
       /\ own'[c] = NothingOwned /\ \A d \in Clients \ {c} : own'[d] = own[d]
  <2>1. NothingOwned \in [project : BOOLEAN, file : BOOLEAN, progs : SUBSET Ids]
    BY DEF NothingOwned
  <2> QED BY <1>0, <2>1, Typed
<1>18. OpensCounted' /\ ProgramsOwned'
  <2>1. ASSUME NEW d \in Clients \ {c}
        PROVE  /\ HasProject(d)' <=> HasProject(d)
               /\ HasFile(d)' <=> HasFile(d)
               /\ HasPrograms(d)' = HasPrograms(d)
    <3>1. Adopted(d)' = Adopted(d)
      BY Resting
    <3>2. own'[d] = own[d]
      BY <1>17
    <3> QED BY <3>1, <3>2, SameHas
  <2>2. KeepsOthers(c)
    BY <2>1 DEF KeepsOthers
  <2>3. Adopted(c)' = {}
    BY Resting
  <2>4. ~HasProject(c)' /\ ~HasFile(c)' /\ HasPrograms(c)' = {}
    <3>1. (HasProject(c)' <=> own'[c].project) /\ (HasFile(c)' <=> own'[c].file) /\ HasPrograms(c)' = own'[c].progs
      BY <2>3, OwningNext
    <3> QED BY <1>17, <3>1 DEF NothingOwned
  <2>5. /\ One(HasProject(c)) = One(o.project) /\ One(HasFile(c)) = One(o.file)
        /\ One(HasProject(c)') = One(opens.project) /\ One(HasFile(c)') = One(opens.file)
    BY <1>7, <1>9, <2>4 DEF One
  <2>6. PICK gone : gone = o.progs
    OBVIOUS
  <2>7. PICK new : new = {}
    OBVIOUS
  <2>8. /\ canon'.count = canon.count - One(HasProject(c)) + One(HasProject(c)')
        /\ canon'.files = canon.files - One(HasFile(c)) + One(HasFile(c)')
    BY <1>5, <1>14, <1>15, <2>5
  <2>9. /\ gone \subseteq HasPrograms(c) /\ new \cap (canon.progs \ gone) = {}
        /\ HasPrograms(c)' = (HasPrograms(c) \ gone) \cup new
        /\ canon'.progs = (canon.progs \ gone) \cup new
    BY <1>5, <1>7, <1>14, <1>15, <2>4, <2>6, <2>7
  <2> QED BY <1>0, <2>2, <2>8, <2>9, CountsMoved
<1> QED BY <1>5, <1>14, <1>15, <1>16, <1>17, <1>18 DEF Leaves

LEMMA CloseSteps == ASSUME IInv, NEW c \in Clients, Close(c) PROVE IInv'
<1>0. /\ TypeOK /\ RequestsOk /\ Agreed /\ SnapshotsSound /\ CanonSound /\ OpensCounted /\ ProgramsOwned
      /\ ReferencesKept /\ HandlesExact /\ Room
  BY DEF IInv
<1>1. /\ conn[c] = "closing" /\ \A r \in InProgress : req[r].client # c
      /\ sd' = [sd EXCEPT ![c] = [h \in Handles |-> NoEntry]]
      /\ UNCHANGED <<updateMu, lsMu, held, req, crashed>>
  BY DEF Close
<1>2. \E v \in {"closed", "kept"} : conn' = [conn EXCEPT ![c] = v]
  BY DEF Close
<1>3. /\ conn' \in [Clients -> {"open", "closing", "closed", "kept"}] /\ conn'[c] \in {"closed", "kept"}
      /\ \A d \in Clients \ {c} : conn'[d] = conn[d]
  BY <1>0, <1>2 DEF TypeOK
<1>4. Adopted(c) = {}
  BY <1>0, <1>1, NoUpdate
<1>15. /\ Processed \in BOOLEAN /\ (Processed => overlay)
       /\ Flush => overlay' = Processed /\ open' \in BOOLEAN /\ pending' \in BOOLEAN
       /\ open \in BOOLEAN /\ pending \in BOOLEAN /\ overlay \in BOOLEAN
  BY <1>0, Processing, Typed
<1>5. Leaves(c) /\ overlay' \in BOOLEAN /\ open' \in BOOLEAN /\ pending' \in BOOLEAN
  <2>1. CASE canon' = canon /\ own' = own /\ UNCHANGED <<open, pending, overlay>>
    BY <1>0, <1>1, <1>15, <2>1, Typed, LeavingOthers DEF CanonSound
  <2>2. CASE Flush /\ canon' = Refused(pending, Processed) /\ own' = own
    <3>1. PICK o : o = Processed
      OBVIOUS
    <3>2. /\ canon' \in Snapshot /\ (o => canon'.overlay) /\ canon'.count = canon.count
          /\ canon'.files = canon.files /\ canon'.progs = canon.progs /\ canon'.broken = canon.broken
          /\ Needed(canon') => canon'.loaded
      BY <1>15, <2>2, <3>1, Refusing
    <3> QED BY <1>1, <1>15, <2>2, <3>1, <3>2, LeavingOthers
  <2>3. CASE /\ Flush /\ canon' = Applied(Flushed(canon, Processed), CloseAll(c))
             /\ own' = [own EXCEPT ![c] = NothingOwned]
    <3>1. PICK o : o = Processed
      OBVIOUS
    <3>2. overlay' = o /\ canon' = Applied(Flushed(canon, o), CloseAll(c))
      BY <1>15, <2>3, <3>1
    <3>3. Leaves(c)
      BY <1>1, <1>4, <2>3, <3>1, <3>2, LeavingAll
    <3> QED BY <1>15, <2>3, <3>3
  <2> QED BY <2>1, <2>2, <2>3 DEF Close
<1>6. \A r \in Requests : req[r].pc # "idle" => req[r].client \in Clients \ {c}
  BY <1>0, <1>1 DEF InProgress, RequestsOk, RequestOf
<1>7. /\ sd' \in [Clients -> [Handles -> Entry]]
      /\ \A d \in Clients \ {c} : sd'[d] = sd[d]
      /\ \A h \in Handles : sd'[c][h] = NoEntry
  <2>1. [h \in Handles |-> NoEntry] \in [Handles -> Entry]
    BY Records
  <2> QED BY <1>0, <1>1, <2>1, Typed
<1>8. TypeOK'
  BY <1>0, <1>1, <1>3, <1>5, <1>7 DEF TypeOK, Leaves
<1>9. RequestsOk'
  <2>1. ASSUME NEW r \in Requests PROVE RequestOf(req[r], r)'
    <3>1. RequestOf(req[r], r)
      BY <1>0 DEF RequestsOk
    <3>2. req[r].pc # "idle" => conn'[req[r].client] \in {"open", "closing"}
      BY <1>3, <1>6, <3>1 DEF RequestOf
    <3> QED BY <1>1, <3>1, <3>2 DEF RequestOf
  <2> QED BY <2>1 DEF RequestsOk
<1>10. Agreed'
  <2>1. ASSUME NEW r \in Requests, req'[r].pc \in Updating PROVE AgreedOf(req[r])'
    <3>1. req'[r] = req[r] /\ AgreedOf(req[r])
      BY <1>0, <1>1, <2>1 DEF Agreed
    <3>2. own'[req[r].client] = own[req[r].client]
      BY <1>5, <1>6, <2>1, <3>1 DEF Leaves, Updating
    <3> QED BY <3>1, <3>2 DEF AgreedOf
  <2> QED BY <2>1 DEF Agreed
<1>11. SnapshotsSound'
  <2>1. ASSUME NEW d \in Clients, NEW h \in Handles PROVE Sound(sd'[d][h].snapshot, sd'[d][h].opens)
    <3>1. CASE d = c
      BY <1>7, <3>1, Records, SoundNothing
    <3>2. CASE d # c
      BY <1>0, <1>7, <3>2 DEF SnapshotsSound
    <3> QED BY <3>1, <3>2
  <2>2. \A r \in Requests : req'[r].pc = "adopted" => Sound(req'[r].snapshot, req'[r].opens)
    BY <1>0, <1>1 DEF SnapshotsSound
  <2> QED BY <2>1, <2>2 DEF SnapshotsSound, Sound
<1>12. ASSUME NEW d \in Clients, NEW k \in Handles
       PROVE  /\ sd'[d][k].refCount >= Referenced(d, k)' /\ Promised(d, k)' <= 1
              /\ conn'[d] = "open" => sd'[d][k].refCount = Referenced(d, k)'
  <2>1. /\ Referenced(d, k) \in Nat /\ Referenced(d, k)' \in Nat
        /\ Referenced(d, k)' = Referenced(d, k) - One(k \in held[d]) + One(k \in held'[d])
        /\ Promised(d, k) \in Nat
        /\ Promised(d, k)' = Promised(d, k) - One(k \in held[d]) + One(k \in held'[d])
    BY <1>1, Resting
  <2>2. One(k \in held'[d]) = One(k \in held[d]) /\ One(k \in held[d]) \in 0..1
    BY <1>1 DEF One
  <2>3. Promised(d, k) <= 1 /\ sd[d][k].refCount >= Referenced(d, k)
    BY <1>0 DEF ReferencesKept
  <2>4. CASE d = c
    <3>1. k \notin held[d]
      BY <1>0, <1>1, <2>4 DEF ReferencesKept
    <3>2. Using(d, k) = {} /\ Answering(d, k) = {}
      BY <1>1, <2>4 DEF Using, Answering
    <3>3. Referenced(d, k) = 0
      BY <3>1, <3>2, FS_EmptySet DEF Referenced
    <3>4. sd'[d][k].refCount = 0 /\ conn'[d] # "open"
      BY <1>3, <1>7, <2>4, Records
    <3> HIDE DEF Referenced, Promised
    <3> QED BY <2>1, <2>2, <2>3, <3>3, <3>4
  <2>5. CASE d # c
    <3>1. sd'[d][k] = sd[d][k] /\ conn'[d] = conn[d] /\ sd[d][k].refCount \in Nat
      BY <1>0, <1>3, <1>7, <2>5, Typed DEF Entry
    <3>2. conn[d] = "open" => sd[d][k].refCount = Referenced(d, k)
      BY <1>0, Exactly
    <3> HIDE DEF Referenced, Promised
    <3> QED BY <2>1, <2>2, <2>3, <3>1, <3>2
  <2> QED BY <2>4, <2>5
<1>13. ReferencesKept' /\ HandlesExact'
  <2>1. \A d \in Clients : conn'[d] # "open" => held'[d] = {}
    BY <1>0, <1>1, <1>3 DEF ReferencesKept
  <2>2. ReferencesKept'
    BY <1>12, <2>1 DEF ReferencesKept
  <2>3. HandlesExact'
    BY <1>12, ExactlyNext
  <2> QED BY <2>2, <2>3
<1>14. Room'
  <2>1. Cardinality(Entries)' <= Cardinality(Entries) /\ Cardinality(Entries)' \in Nat
    <3>1. ASSUME NEW x \in Entries' PROVE x \in Entries
      <4>1. x \in Clients \X Handles /\ sd'[x[1]][x[2]].refCount > 0
        BY <3>1 DEF Entries
      <4>2. x[1] \in Clients /\ x[2] \in Handles
        BY <4>1
      <4>3. x[1] # c
        BY <1>7, <4>1, <4>2, Records
      <4> QED BY <1>7, <4>1, <4>2, <4>3 DEF Entries
    <3>2. Entries' \in SUBSET Entries
      BY <3>1
    <3>3. Cardinality(Entries') <= Cardinality(Entries) /\ Cardinality(Entries') \in Nat
      BY <3>2, Waiting, FS_Subset, FS_CardinalityType
    <3> QED BY <3>3
  <2>2. /\ Cardinality(Unanswered)' = Cardinality(Unanswered)
        /\ Cardinality(ToCreate)' = Cardinality(ToCreate)
    BY <1>1, Resting
  <2>3. Cardinality(Entries)' + Cardinality(Unanswered)' <= MaxHandles
    BY <1>0, <2>1, <2>2, Waiting, Constants DEF Room
  <2>4. Cardinality(canon'.progs) <= Cardinality(canon.progs)
        /\ Cardinality(canon'.progs) \in Nat /\ Cardinality(canon.progs) \in Nat
    <3>1. canon.progs \in SUBSET Ids /\ canon'.progs \in SUBSET canon.progs
      BY <1>0, <1>5, Typed DEF Leaves, Snapshot
    <3>2. IsFiniteSet(canon.progs)
      BY <3>1, Constants, FS_Subset
    <3>3. IsFiniteSet(canon'.progs) /\ Cardinality(canon'.progs) <= Cardinality(canon.progs)
      BY <3>1, <3>2, FS_Subset
    <3> QED BY <3>2, <3>3, FS_CardinalityType
  <2>5. Cardinality(canon'.progs) + Cardinality(ToCreate)' <= MaxId
    BY <1>0, <2>2, <2>4, Waiting, Constants DEF Room
  <2>6. ASSUME NEW x \in Requests, req[x].pc = "deriving", "create" \in req[x].ask.ops
        PROVE  Cardinality((IF req[x].base = None THEN Empty
                            ELSE sd'[req[x].client][req[x].base].snapshot).progs) < MaxId
    <3>1. Cardinality((IF req[x].base = None THEN Empty
                       ELSE sd[req[x].client][req[x].base].snapshot).progs) < MaxId
      BY <1>0, <2>6 DEF Room, BaseOf
    <3>2. sd'[req[x].client] = sd[req[x].client]
      BY <1>6, <1>7, <2>6
    <3> QED BY <3>1, <3>2
  <2>7. req' = req
    BY <1>1
  <2> QED BY <2>3, <2>5, <2>6, <2>7 DEF Room, BaseOf
<1> QED BY <1>5, <1>8, <1>9, <1>10, <1>11, <1>13, <1>14 DEF IInv, Leaves

-----------------------------------------------------------------------------
(* The theorems.                                                                *)

LEMMA Start == ASSUME Init PROVE IInv
<1> USE Constants
<1>1. /\ canon = Empty /\ open = FALSE /\ pending = FALSE /\ overlay = FALSE /\ \A c \in Clients : own[c] = NothingOwned
      /\ \A c \in Clients : conn[c] = "open" /\ held[c] = {} /\ lsMu[c] = None
      /\ \A c \in Clients, h \in Handles : sd[c][h] = NoEntry
      /\ \A r \in Requests : req[r] = NoRequest
  BY DEF Init
<1>2. \A r \in Requests : req[r].pc = "idle" /\ req[r].handle = None
  BY <1>1, Idle
<1>3. TypeOK
  <2>1. NothingOwned \in [project : BOOLEAN, file : BOOLEAN, progs : SUBSET Ids]
    BY DEF NothingOwned
  <2>2. req \in [Requests -> Record]
    BY Idle DEF Init
  <2>3. canon \in Snapshot /\ open \in BOOLEAN /\ pending \in BOOLEAN /\ overlay \in BOOLEAN /\ updateMu \in Requests \cup {None} /\ crashed \in BOOLEAN
    BY Records DEF Init
  <2>4. sd \in [Clients -> [Handles -> Entry]]
    BY Records DEF Init
  <2>5. /\ conn \in [Clients -> {"open", "closing", "closed", "kept"}]
        /\ own \in [Clients -> [project : BOOLEAN, file : BOOLEAN, progs : SUBSET Ids]]
        /\ lsMu \in [Clients -> Requests \cup {None}] /\ held \in [Clients -> SUBSET Handles]
    BY <2>1 DEF Init
  <2> QED BY <2>2, <2>3, <2>4, <2>5 DEF TypeOK, Record
<1>4. RequestsOk /\ Agreed
  BY <1>2 DEF RequestsOk, RequestOf, Agreed, Updating
<1>5. SnapshotsSound
  BY <1>1, <1>2, Records, SoundNothing DEF SnapshotsSound
<1>6. CanonSound
  BY <1>1, Records DEF CanonSound
<1>7. \A c \in Clients : ~HasProject(c) /\ ~HasFile(c) /\ HasPrograms(c) = {}
  <2> SUFFICES ASSUME NEW c \in Clients
               PROVE  ~HasProject(c) /\ ~HasFile(c) /\ HasPrograms(c) = {}
    OBVIOUS
  <2>1. Adopted(c) = {}
    BY <1>2 DEF Adopted
  <2>2. /\ HasProject(c) <=> own[c].project
        /\ HasFile(c) <=> own[c].file
        /\ HasPrograms(c) = own[c].progs
    BY <2>1, Owning
  <2> QED BY <1>1, <2>2 DEF NothingOwned
<1>8. OpensCounted
  <2>1. {c \in Clients : HasProject(c)} = {} /\ {c \in Clients : HasFile(c)} = {}
    BY <1>7
  <2> QED BY <1>1, <2>1, Records, FS_EmptySet DEF OpensCounted
<1>9. ProgramsOwned
  <2>1. UNION {HasPrograms(c) : c \in Clients} = {}
    BY <1>7
  <2> QED BY <1>1, <1>7, <2>1, Records DEF ProgramsOwned
<1>10. \A c \in Clients, h \in Handles : Referenced(c, h) = 0 /\ Promised(c, h) = 0 /\ sd[c][h].refCount = 0
  <2> SUFFICES ASSUME NEW c \in Clients, NEW h \in Handles
               PROVE  Referenced(c, h) = 0 /\ Promised(c, h) = 0 /\ sd[c][h].refCount = 0
    OBVIOUS
  <2>1. Using(c, h) = {} /\ Answering(c, h) = {}
    BY <1>2 DEF Using, Answering, InProgress
  <2> QED BY <1>1, <2>1, FS_EmptySet, Records DEF Referenced, Promised
<1>11. ReferencesKept /\ HandlesExact
  <2>1. ReferencesKept
    BY <1>1, <1>10 DEF ReferencesKept
  <2>2. HandlesExact
    BY <1>10, Exactly
  <2> QED BY <2>1, <2>2
<1>12. Room
  <2>1. Entries = {}
    BY <1>1, Records DEF Entries
  <2>2. Unanswered = {} /\ ToCreate = {}
    BY <1>2 DEF Unanswered, ToCreate
  <2>3. canon.progs = {}
    BY <1>1, Records
  <2> QED BY <1>2, <2>1, <2>2, <2>3, FS_EmptySet DEF Room
<1> QED BY <1>3, <1>4, <1>5, <1>6, <1>8, <1>9, <1>11, <1>12 DEF IInv

LEMMA Steps == ASSUME IInv, [Next]_vars PROVE IInv'
<1>1. CASE OpenFile
  BY <1>1, OpenFileSteps
<1>2. CASE CloseFile
  BY <1>2, CloseFileSteps
<1>8. CASE ScheduledUpdate
  BY <1>8, ScheduledUpdateSteps
<1>3. CASE IdleClean
  BY <1>3, IdleCleanSteps
<1>4. CASE AutoImports
  BY <1>4, AutoImportsSteps
<1>5. ASSUME NEW r \in Requests, Request(r) PROVE IInv'
  <2>1. ASSUME NEW c \in Clients, NEW ask \in UpdateAsks, BeginUpdate(r, c, ask) PROVE IInv'
    BY <2>1, BeginUpdateSteps
  <2>2. ASSUME NEW c \in Clients, NEW b \in Handles \cup {None}, NEW ask \in DeriveAsks,
               BeginDerive(r, c, b, ask)
        PROVE  IInv'
    BY <2>2, BeginDeriveSteps
  <2>3. CASE TakeUpdate(r)
    BY <2>3, TakeUpdateSteps
  <2>4. CASE Build(r)
    BY <2>4, BuildSteps
  <2>5. CASE Commit(r)
    BY <2>5, CommitSteps
  <2>6. CASE Derive(r)
    BY <2>6, DeriveSteps
  <2>7. CASE End(r)
    BY <2>7, EndSteps
  <2> QED BY <1>5, <2>1, <2>2, <2>3, <2>4, <2>5, <2>6, <2>7 DEF Request
<1>6. ASSUME NEW c \in Clients, Client(c) PROVE IInv'
  <2>1. CASE Disconnect(c)
    BY <2>1, DisconnectSteps
  <2>2. CASE Close(c)
    BY <2>2, CloseSteps
  <2>3. ASSUME NEW h \in Handles, Release(c, h) PROVE IInv'
    BY <2>3, ReleaseSteps
  <2> QED BY <1>6, <2>1, <2>2, <2>3 DEF Client
<1>7. CASE UNCHANGED vars
  <2>1. UNCHANGED <<canon, open, pending, overlay, updateMu, conn, own, lsMu, sd, held, req, crashed>>
    BY <1>7 DEF vars
  <2>2. /\ canon' \in Snapshot /\ CanonSound'
        /\ open' \in BOOLEAN /\ pending' \in BOOLEAN /\ overlay' \in BOOLEAN
    BY <2>1, Typed DEF IInv, CanonSound
  <2> QED BY <2>1, <2>2, EditorSteps
<1> QED BY <1>1, <1>2, <1>3, <1>4, <1>5, <1>6, <1>7, <1>8 DEF Next

\* Whatever clients ask for, and whenever their connections end, the locks, opens, programs and
\* references of the API fit together (session.go, HandleAPIRequest, APIUpdate).
THEOREM Invariant == Spec => []IInv
<1>1. Init => IInv
  BY Start
<1>2. IInv /\ [Next]_vars => IInv'
  BY Steps
<1> QED BY <1>1, <1>2, PTL DEF Spec

\* Every variable has its type: the counts of a snapshot never exceed the number of clients, ids
\* and handles never run out, and no client's lock is held by a request of nobody
\* (HandleAPIRequest, registerSnapshot, getCurrentLanguageServerSnapshot).
THEOREM TypeCorrect == Spec => []TypeOK
<1>1. IInv => TypeOK
  BY DEF IInv
<1> QED BY <1>1, Invariant, PTL

\* Opens, synthetic programs and references to snapshots are counted exactly, whatever requests
\* run at once, fail or lose their client (HandleAPIRequest, commit, releaseSnapshot).
THEOREM CountsAlwaysExact == Spec => []CountsExact
<1>1. IInv => CountsExact
  BY DEF IInv, CountsExact
<1> QED BY <1>1, Invariant, PTL

\* What somebody has open is loaded, in the server's snapshot and in every one that is handed out
\* (cleanupConfiguredProjects, registerSnapshot).
THEOREM OpenAlwaysLoaded == Spec => []OpenStaysLoaded
<1>1. ASSUME IInv PROVE OpenStaysLoaded
  <2>1. Needed(canon) => canon.loaded
    BY <1>1 DEF IInv, CanonSound
  <2>2. ASSUME NEW c \in Clients, NEW h \in Handles
        PROVE  /\ Needed(sd[c][h].snapshot) => sd[c][h].snapshot.loaded
               /\ sd[c][h].opens.project => sd[c][h].snapshot.count > 0
               /\ sd[c][h].opens.file => sd[c][h].snapshot.files > 0
    <3>1. Sound(sd[c][h].snapshot, sd[c][h].opens)
      BY <1>1 DEF IInv, SnapshotsSound
    <3> QED BY <3>1 DEF Sound
  <2> QED BY <2>1, <2>2 DEF OpenStaysLoaded
<1>2. IInv => OpenStaysLoaded
  BY <1>1
<1> QED BY <1>2, Invariant, PTL

-----------------------------------------------------------------------------
(* What the editor reports.                                                     *)

\* A close is pending until it is processed, and what has been processed is in the server's
\* snapshot or on its way there in the one update that holds snapshotUpdateMu.
Delivered ==
  /\ IF pending THEN overlay /\ ~open ELSE overlay = open
  /\ \A r \in Requests : req[r].pc = "building" <=> updateMu = r
  /\ updateMu = None => canon.overlay = overlay
  /\ \A r \in Requests : req[r].pc = "building" => req[r].flushed \/ canon.overlay = overlay

\* A step without snapshotUpdateMu leaves the server's snapshot alone.
LEMMA OutsideKeeps ==
  ASSUME Delivered, UNCHANGED <<canon, overlay, updateMu>>,
         IF pending' THEN overlay' /\ ~open' ELSE overlay' = open',
         \A r \in Requests : req'[r].pc = "building" <=> req[r].pc = "building",
         \A r \in Requests : req[r].pc = "building" => req'[r].flushed = req[r].flushed
  PROVE  Delivered'
BY DEF Delivered

\* A step that takes snapshotUpdateMu and gives it back flushes and adopts in one go.
LEMMA InsideKeeps ==
  ASSUME Delivered, updateMu = None, updateMu' = None, req' = req, canon'.overlay = overlay',
         IF pending' THEN overlay' /\ ~open' ELSE overlay' = open'
  PROVE  Delivered'
BY NoneAssumption DEF Delivered

LEMMA FlushKeeps ==
  ASSUME TypeOK, Delivered, Flush
  PROVE  IF pending' THEN overlay' /\ ~open' ELSE overlay' = open'
BY Typed DEF Delivered, Flush, Processed

\* Only the request itself moves.
LEMMA RequestKeeps ==
  ASSUME TypeOK, Delivered, NEW r \in Requests, NEW q, req' = [req EXCEPT ![r] = q],
         req[r].pc # "building", q.pc # "building",
         UNCHANGED <<canon, open, pending, overlay, updateMu>>
  PROVE  Delivered'
<1>1. \A x \in Requests : req'[x] = IF x = r THEN q ELSE req[x]
  BY Typed
<1>2. IF pending' THEN overlay' /\ ~open' ELSE overlay' = open'
  BY DEF Delivered
<1> QED BY <1>1, <1>2, OutsideKeeps

LEMMA EditorKeeps ==
  ASSUME IInv, Delivered, OpenFile \/ CloseFile \/ ScheduledUpdate \/ IdleClean \/ AutoImports
  PROVE  Delivered'
<1>1. TypeOK /\ canon \in Snapshot /\ overlay \in BOOLEAN
  BY Typed DEF IInv
<1>2. CASE OpenFile
  <2>1. PICK s : s = [canon EXCEPT !.overlay = TRUE, !.loaded = TRUE]
    OBVIOUS
  <2>2. s \in Snapshot /\ s.overlay = TRUE
    BY <1>1, <2>1 DEF Snapshot
  <2>3. canon' = Cleanup(s)
    BY <1>2, <2>1 DEF OpenFile
  <2>4. canon'.overlay = TRUE
    BY <2>2, <2>3, CleaningUp
  <2> QED BY <1>2, <2>4, InsideKeeps DEF OpenFile
<1>3. CASE CloseFile
  <2>1. overlay' /\ pending' /\ ~open'
    BY <1>3 DEF CloseFile, Delivered
  <2> QED BY <1>3, <2>1, OutsideKeeps DEF CloseFile
<1>4. CASE ScheduledUpdate \/ IdleClean
  <2>1. PICK o : o = Processed
    OBVIOUS
  <2>2. PICK s : s = Flushed(canon, o)
    OBVIOUS
  <2>3. Flush /\ overlay' = o /\ (canon' = s \/ canon' = Cleanup(s))
    BY <1>4, <2>1, <2>2 DEF ScheduledUpdate, IdleClean, Flush
  <2>4. s \in Snapshot /\ s.overlay = o
    BY <1>1, <2>1, <2>2, Processing, Flushing
  <2>5. canon'.overlay = overlay'
    BY <2>3, <2>4, CleaningUp
  <2> QED BY <1>1, <1>4, <2>3, <2>5, FlushKeeps, InsideKeeps DEF ScheduledUpdate, IdleClean
<1>5. CASE AutoImports
  <2>1. canon'.overlay = canon.overlay
    BY <1>1, <1>5 DEF AutoImports, Snapshot
  <2>2. canon'.overlay = overlay'
    BY <1>5, <2>1 DEF AutoImports, Delivered
  <2>3. IF pending' THEN overlay' /\ ~open' ELSE overlay' = open'
    BY <1>5 DEF AutoImports, Delivered
  <2> QED BY <1>5, <2>2, <2>3, InsideKeeps DEF AutoImports
<1> QED BY <1>2, <1>3, <1>4, <1>5

\* A request begins and ends outside the lock.
LEMMA BeginsAndEnds ==
  ASSUME IInv, Delivered, NEW r \in Requests,
         \/ \E c \in Clients, ask \in UpdateAsks : BeginUpdate(r, c, ask)
         \/ \E c \in Clients, b \in Handles \cup {None}, ask \in DeriveAsks : BeginDerive(r, c, b, ask)
         \/ Commit(r) \/ Derive(r) \/ End(r)
  PROVE  Delivered'
<1>1. TypeOK
  BY DEF IInv
<1>2. /\ UNCHANGED <<canon, open, pending, overlay, updateMu>>
      /\ req[r].pc # "building"
      /\ \E q : req' = [req EXCEPT ![r] = q] /\ q.pc # "building"
  <2>1. NoRequest.pc = "idle"
    BY Idle
  <2>2. ASSUME NEW c \in Clients, NEW ask \in UpdateAsks, BeginUpdate(r, c, ask)
        PROVE  <1>2!2 /\ <1>2!3 /\ <1>2!1
    <3>1. PICK q : q = [NoRequest EXCEPT !.pc = "ready", !.client = c, !.opens = OpenState(ask.ops, OwnOpens(c)),
                            !.ask = [ops |-> Reconciled(ask.ops, OwnOpens(c)),
                                     remove |-> ask.remove \cap Owned(c)]]
      OBVIOUS
    <3>2. q.pc = "ready" /\ req' = [req EXCEPT ![r] = q]
      BY <2>2, <3>1 DEF BeginUpdate, NoRequest
    <3> QED BY <2>2, <3>2 DEF BeginUpdate
  <2>3. ASSUME NEW c \in Clients, NEW b \in Handles \cup {None}, NEW ask \in DeriveAsks,
               BeginDerive(r, c, b, ask)
        PROVE  <1>2!2 /\ <1>2!3 /\ <1>2!1
    <3>1. PICK q : q = [NoRequest EXCEPT !.pc = "deriving", !.client = c, !.base = b, !.ask = ask]
      OBVIOUS
    <3>2. q.pc = "deriving" /\ req' = [req EXCEPT ![r] = q]
      BY <2>3, <3>1 DEF BeginDerive, NoRequest
    <3> QED BY <2>3, <3>2 DEF BeginDerive
  <2>4. CASE Commit(r)
    BY <2>1, <2>4 DEF Commit
  <2>5. CASE Derive(r)
    <3>1. \A h : Answer(req[r], h).pc = "done"
      BY DEF Answer, NoRequest
    <3> QED BY <2>5, <3>1 DEF Derive
  <2>6. CASE End(r)
    BY <2>1, <2>6 DEF End
  <2> QED BY <2>2, <2>3, <2>4, <2>5, <2>6
<1> QED BY <1>1, <1>2, RequestKeeps

\* The update flushes when it takes the lock.
LEMMA TakeKeeps == ASSUME IInv, Delivered, NEW r \in Requests, TakeUpdate(r) PROVE Delivered'
<1>1. TypeOK /\ pending \in BOOLEAN /\ overlay \in BOOLEAN
  BY Typed DEF IInv
<1>2. IF pending' THEN overlay' /\ ~open' ELSE overlay' = open'
  BY <1>1, FlushKeeps DEF TakeUpdate
<1>3. \A x \in Requests : /\ req'[x].pc = IF x = r THEN "building" ELSE req[x].pc
                          /\ x = r => req'[x].flushed = pending
  BY <1>1, Typed DEF TakeUpdate, Record
<1>4. updateMu' = r /\ updateMu = None /\ canon' = canon
  BY DEF TakeUpdate
<1>5. \A x \in Requests : req[x].pc # "building"
  BY <1>4, NoneAssumption DEF Delivered
<1>6. pending \/ canon'.overlay = overlay'
  BY <1>1, <1>4 DEF Delivered, TakeUpdate, Flush, Processed
<1>7. \A x \in Requests : req'[x].pc = "building" <=> updateMu' = x
  BY <1>3, <1>4, <1>5
<1>8. \A x \in Requests : req'[x].pc = "building" => req'[x].flushed \/ canon'.overlay = overlay'
  BY <1>3, <1>5, <1>6
<1> QED BY <1>2, <1>4, <1>7, <1>8, NoneAssumption DEF Delivered

\* Adopted or refused, what was flushed is delivered when the lock is given back.
LEMMA BuildKeeps == ASSUME IInv, Delivered, NEW r \in Requests, Build(r) PROVE Delivered'
<1>1. TypeOK /\ canon \in Snapshot /\ overlay \in BOOLEAN
  BY Typed DEF IInv
<1>2. /\ req[r].pc = "building" /\ updateMu' = None /\ UNCHANGED <<open, pending, overlay>>
      /\ updateMu = r
  BY DEF Build, Delivered
<1>3. canon'.overlay = overlay
  <2>1. CASE canon' = Refused(req[r].flushed, overlay)
    <3>1. Flushed(canon, overlay).overlay = overlay
      BY <1>1, Flushing
    <3> QED BY <1>2, <2>1, <3>1 DEF Refused, Delivered
  <2>2. CASE canon' = Applied(Flushed(canon, overlay), req[r].ask)
    <3>1. PICK c : c = req[r].client
      OBVIOUS
    <3>2. PICK ask : ask = req[r].ask
      OBVIOUS
    <3>3. PICK opens : opens = req[r].opens
      OBVIOUS
    <3>4. PICK u : u = Applied(Flushed(canon, overlay), ask)
      OBVIOUS
    <3>5. PICK new : new = Created(Flushed(canon, overlay), ask)
      OBVIOUS
    <3>6. Builds(c, ask, opens, u, new)
      BY <1>2, <3>1, <3>2, <3>3, <3>4, <3>5, Building
    <3> QED BY <2>2, <3>2, <3>4, <3>6 DEF Builds
  <2> QED BY <2>1, <2>2 DEF Build
<1>4. \A x \in Requests : req'[x].pc # "building"
  <2>1. \A x \in Requests \ {r} : req'[x] = req[x] /\ req[x].pc # "building"
    BY <1>1, <1>2, Typed DEF Build, Delivered
  <2>2. req'[r].pc # "building"
    <3>1. CASE req' = [req EXCEPT ![r] = NoRequest]
      BY <1>1, <3>1, Typed, Idle
    <3>2. CASE \E s, new : req' = [req EXCEPT ![r].pc = "adopted", ![r].flushed = FALSE,
                                             ![r].snapshot = s, ![r].created = new]
      <4>1. DOMAIN req = Requests /\ req[r] \in Record
        BY <1>1, Typed
      <4>2. req'[r].pc = "adopted"
        BY <3>2, <4>1 DEF Record
      <4> QED BY <4>2
    <3> QED BY <3>1, <3>2 DEF Build
  <2> QED BY <2>1, <2>2
<1>5. IF pending' THEN overlay' /\ ~open' ELSE overlay' = open'
  BY <1>2 DEF Delivered
<1> QED BY <1>2, <1>3, <1>4, <1>5, NoneAssumption DEF Delivered

\* So it is when a client leaves.
LEMMA CloseKeeps == ASSUME IInv, Delivered, NEW c \in Clients, Close(c) PROVE Delivered'
<1>1. TypeOK /\ RequestsOk /\ canon \in Snapshot /\ overlay \in BOOLEAN
  BY Typed DEF IInv
<1>2. updateMu = None /\ updateMu' = None /\ req' = req /\ canon.overlay = overlay
  BY DEF Close, Delivered
<1>3. Processed \in BOOLEAN /\ (Processed => overlay)
  BY <1>1, Processing
<1>4. CASE UNCHANGED <<canon, open, pending, overlay>>
  <2>1. canon'.overlay = overlay' /\ IF pending' THEN overlay' /\ ~open' ELSE overlay' = open'
    BY <1>2, <1>4 DEF Delivered
  <2> QED BY <1>2, <2>1, InsideKeeps
<1>5. CASE Flush /\ canon' = Refused(pending, Processed)
  <2>1. Flushed(canon, Processed).overlay = Processed
    BY <1>3, Flushing
  <2>2. canon'.overlay = overlay'
    BY <1>1, <1>2, <1>5, <2>1 DEF Refused, Flush, Processed
  <2> QED BY <1>1, <1>2, <1>5, <2>2, FlushKeeps, InsideKeeps
<1>6. CASE /\ Flush /\ canon' = Applied(Flushed(canon, Processed), CloseAll(c))
           /\ own' = [own EXCEPT ![c] = NothingOwned]
  <2>1. PICK o : o = Processed
    OBVIOUS
  <2>2. overlay' = o /\ canon' = Applied(Flushed(canon, o), CloseAll(c))
    BY <1>6, <2>1 DEF Flush
  <2>3. Adopted(c) = {}
    BY <1>1, NoUpdate DEF Close
  <2>4. canon'.overlay = overlay'
    BY <1>2, <1>6, <2>1, <2>2, <2>3, LeavingAll
  <2> QED BY <1>1, <1>2, <1>6, <2>4, FlushKeeps, InsideKeeps
<1> QED BY <1>4, <1>5, <1>6 DEF Close

LEMMA DeliveredSteps == ASSUME IInv, Delivered, [Next]_vars PROVE Delivered'
<1>1. CASE OpenFile \/ CloseFile \/ ScheduledUpdate \/ IdleClean \/ AutoImports
  BY <1>1, EditorKeeps
<1>2. ASSUME NEW r \in Requests, Request(r) PROVE Delivered'
  <2>1. CASE TakeUpdate(r)
    BY <2>1, TakeKeeps
  <2>2. CASE Build(r)
    BY <2>2, BuildKeeps
  <2> QED BY <1>2, <2>1, <2>2, BeginsAndEnds DEF Request
<1>3. ASSUME NEW c \in Clients, Client(c) PROVE Delivered'
  <2>1. CASE Close(c)
    BY <2>1, CloseKeeps
  <2>2. CASE Disconnect(c) \/ \E h \in Handles : Release(c, h)
    <3>1. UNCHANGED <<canon, open, pending, overlay, updateMu, req>>
      BY <2>2 DEF Disconnect, Release
    <3> QED BY <3>1, OutsideKeeps DEF Delivered
  <2> QED BY <1>3, <2>1, <2>2 DEF Client
<1>4. CASE UNCHANGED vars
  <2>1. UNCHANGED <<canon, open, pending, overlay, updateMu, req>>
    BY <1>4 DEF vars
  <2> QED BY <2>1, OutsideKeeps DEF Delivered
<1> QED BY <1>1, <1>2, <1>3, <1>4 DEF Next

\* Nothing that the editor reports is lost: what is no longer pending is in the server's snapshot
\* once no update is being built, also when the update that flushed it was refused
\* (APIUpdate, flushChanges).
THEOREM HostChangesAlwaysKept == Spec => []HostChangesKept
<1>1. Init => Delivered
  <2> SUFFICES ASSUME Init PROVE Delivered
    OBVIOUS
  <2>1. canon = Empty /\ ~open /\ ~pending /\ overlay = FALSE /\ updateMu = None /\ open = FALSE
    BY DEF Init
  <2>2. \A r \in Requests : req[r].pc = "idle" /\ updateMu # r
    BY Idle, NoneAssumption DEF Init
  <2>3. Empty.overlay = FALSE
    BY DEF Empty
  <2> QED BY <2>1, <2>2, <2>3 DEF Delivered
<1>2. IInv /\ Delivered /\ [Next]_vars => Delivered'
  BY DeliveredSteps
<1>3. Delivered => HostChangesKept
  BY DEF Delivered, HostChangesKept
<1> QED BY <1>1, <1>2, <1>3, Invariant, PTL DEF Spec

\* Only the end of a connection changes its state.
LEMMA Ends ==
  ASSUME [Next]_vars, NEW c \in Clients, conn \in [Clients -> {"open", "closing", "closed", "kept"}],
         conn[c] = "closing", conn'[c] = "kept"
  PROVE  Close(c)
<1>1. CASE OpenFile \/ CloseFile \/ ScheduledUpdate \/ IdleClean \/ AutoImports \/ UNCHANGED vars
  BY <1>1 DEF OpenFile, CloseFile, ScheduledUpdate, IdleClean, AutoImports, vars
<1>2. ASSUME NEW r \in Requests, Request(r) PROVE FALSE
  <2>1. conn' = conn
    BY <1>2 DEF Request, BeginUpdate, BeginDerive, TakeUpdate, Build, Commit, Derive, End
  <2> QED BY <2>1
<1>3. ASSUME NEW d \in Clients, Client(d) PROVE Close(c)
  <2>1. CASE Disconnect(d)
    BY <2>1 DEF Disconnect
  <2>2. ASSUME NEW h \in Handles, Release(d, h) PROVE FALSE
    BY <2>2 DEF Release
  <2>3. CASE Close(d)
    <3>1. \E v \in {"closed", "kept"} : conn' = [conn EXCEPT ![d] = v]
      BY <2>3 DEF Close
    <3>2. d = c
      BY <3>1
    <3> QED BY <2>3, <3>2
  <2> QED BY <1>3, <2>1, <2>2, <2>3 DEF Client
<1> QED BY <1>1, <1>2, <1>3 DEF Next

\* The resources of a client that has gone stay behind only when the program of another client is
\* broken (releaseLanguageServerRefs).
THEOREM KeptByOthersOnly == Spec => KeptOnlyByOthers
<1>1. ASSUME IInv, NEW c \in Clients, Close(c), conn'[c] = "kept"
      PROVE  \E d \in Clients \ {c} : HasPrograms(d) \cap canon.broken # {}
  <2>1. TypeOK /\ RequestsOk /\ ProgramsOwned /\ CanonSound
    BY <1>1 DEF IInv
  <2>2. Adopted(c) = {}
    BY <1>1, <2>1, NoUpdate DEF Close
  <2>3. HasPrograms(c) = own[c].progs
    BY <2>2, Owning
  <2>4. Rejects(Flushed(canon, Processed), CloseAll(c))
    <3>1. CASE conn' = [conn EXCEPT ![c] = "closed"]
      BY <1>1, <2>1, <3>1 DEF TypeOK
    <3> QED BY <1>1, <3>1 DEF Close
  <2>5. CloseAll(c).remove = own[c].progs
    BY DEF CloseAll
  <2>6. Flushed(canon, Processed).progs = canon.progs /\ Flushed(canon, Processed).broken = canon.broken
    BY <1>1, <2>1, Flushing, Processing
  <2>7. own[c].progs \subseteq canon.progs
    BY <2>1, <2>3 DEF ProgramsOwned
  <2>8. PICK i : i \in canon.broken /\ i \notin own[c].progs
    BY <2>4, <2>5, <2>6, <2>7 DEF Rejects
  <2>9. PICK d \in Clients : i \in HasPrograms(d)
    BY <2>1, <2>8 DEF ProgramsOwned, CanonSound
  <2> QED BY <2>3, <2>8, <2>9
<1>2. IInv /\ [Next]_vars =>
        [\A c \in Clients : conn[c] = "closing" /\ conn'[c] = "kept" =>
            \E d \in Clients \ {c} : HasPrograms(d) \cap canon.broken # {}]_vars
  <2> SUFFICES ASSUME IInv, [Next]_vars, NEW c \in Clients, conn[c] = "closing", conn'[c] = "kept"
               PROVE  \E d \in Clients \ {c} : HasPrograms(d) \cap canon.broken # {}
    OBVIOUS
  <2>1. conn \in [Clients -> {"open", "closing", "closed", "kept"}]
    BY DEF IInv, TypeOK
  <2>2. Close(c)
    BY <2>1, Ends
  <2> QED BY <1>1, <2>2
<1> QED BY <1>2, Invariant, PTL DEF Spec, KeptOnlyByOthers
=============================================================================
