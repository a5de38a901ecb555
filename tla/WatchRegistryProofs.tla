------------------------- MODULE WatchRegistryProofs -------------------------
(***************************************************************************)
(* For any slots, globs, adopted snapshots and concurrent watch updates:   *)
(* what is wanted is counted and, as long as ids name one set of globs,    *)
(* registered; in order nothing else is; a failure is remembered; and the  *)
(* extensions registered are those of the current snapshot.                *)
(***************************************************************************)
EXTENDS WatchRegistry, FiniteSetTheorems, WellFoundedInduction, TLAPS

Loops == {"visit", "acquire", "watch", "rollback", "clear", "release", "unwatch"}
Updating == {"acquire", "watch", "rollback", "clear"}
IDs == (0 .. MaxUpdates) \X Nat
Tasks ==
  [new : Nat, pc : Loops, slots : SUBSET Slots, old : Watcher \cup {None}, want : Watcher \cup {None},
   todo : SUBSET Globs, fresh : SUBSET Globs, gone : SUBSET IDs, failed : BOOLEAN]

Typed ==
  /\ snaps \in Seq([Slots -> Watcher \cup {None}]) /\ Len(snaps) \in 1 .. MaxUpdates + 1
  /\ lastID \in 0 .. Len(snaps) - 1
  /\ DOMAIN tasks \subseteq 2 .. Len(snaps) /\ tasks \in [DOMAIN tasks -> Tasks]
  /\ entries \in [Globs -> [count : Nat, id : IDs \cup {<<>>}]]
  /\ pending \subseteq 0 .. lastID /\ known \subseteq IDs
  /\ DOMAIN client \subseteq IDs /\ client \in [DOMAIN client -> Globs]
  /\ mappers \in [recorded : SUBSET Slots, snap : Nat, active : BOOLEAN, client : SUBSET Slots]
  /\ failures \in 0 .. MaxFailures /\ overlapped \in BOOLEAN

\* What a task has in its hands in each of its loops.
Shape(k) ==
  /\ k.pc = "visit" => k.fresh = {} /\ k.gone = {} /\ ~k.failed
  /\ k.pc \in Updating => k.want # None /\ k.gone = {} /\ k.fresh \subseteq k.want.globs
  /\ k.pc = "acquire" => k.todo # {} /\ k.todo \subseteq k.want.globs \ k.fresh /\ ~k.failed
  /\ k.pc = "watch" => k.todo # {} /\ k.todo \subseteq k.fresh
  /\ k.pc = "rollback" => k.failed /\ k.todo \subseteq k.fresh
  /\ k.pc = "clear" => ~k.failed
  /\ k.pc = "release" => k.old # None /\ k.todo # {} /\ k.todo \subseteq k.old.globs
  /\ k.pc = "unwatch" => k.gone # {}
Shapes == \A t \in DOMAIN tasks : Shape(tasks[t])

\* The slot that task t is at: it has changed, or its watcher is tried again.
Source(t, s) ==
  LET k == tasks[t] IN
  /\ s \in Slots \ k.slots /\ k.want = snaps[t][s]
  /\ \/ k.old = snaps[t - 1][s] /\ k.old # k.want
     \/ k.old = None /\ k.want = snaps[t - 1][s] /\ failures > 0
Sources == \A t \in DOMAIN tasks : tasks[t].pc # "visit" => \E s \in Slots : Source(t, s)

\* Which watchers there have been, and where they came and went.
Used == {w \in Watcher : \E n \in DOMAIN snaps, s \in Slots : snaps[n][s] = w}
Changes(n, s) == n \in 2 .. Len(snaps) /\ s \in Slots /\ snaps[n][s] # snaps[n - 1][s]
Brings(n, s, w) == Changes(n, s) /\ snaps[n][s] = w
Drops(n, s, w) == Changes(n, s) /\ snaps[n - 1][s] = w
\* Ids are given in order, tell a watcher from its predecessor, and unless they are 0 name
\* one watcher of one slot that came once; a watcher without an id has its predecessor's
\* globs, and one with the same globs has an id.
IdsBelow == \A w \in Used : w.id <= lastID
IdsTell ==
  \A n \in 2 .. Len(snaps), s \in Slots :
    snaps[n][s] # None /\ snaps[n - 1][s] # None /\ snaps[n][s].id = snaps[n - 1][s].id
    => snaps[n][s] = snaps[n - 1][s]
IdsUnique == \A v, w \in Used : v.id = w.id /\ v.id # 0 => v = w
OneSlot ==
  \A n, m \in DOMAIN snaps, s, r \in Slots, w \in Used :
    w.id # 0 /\ snaps[n][s] = w /\ snaps[m][r] = w => s = r
BroughtOnce ==
  \A n, m \in Nat, s, r \in Slots, w \in Used :
    w.id # 0 /\ Brings(n, s, w) /\ Brings(m, r, w) => n = m
GlobsKept ==
  \A n \in Nat, s \in Slots, w \in Watcher :
    w.id = 0 /\ w.globs # {} /\ Brings(n, s, w) => snaps[n - 1][s] # None /\ snaps[n - 1][s].globs = w.globs
Originals == \A w \in Used : w.globs # {} => \E v \in Used : v.id # 0 /\ v.globs = w.globs
History ==
  /\ \A s \in Slots : snaps[1][s] = None
  /\ IdsBelow /\ IdsTell /\ IdsUnique /\ OneSlot /\ BroughtOnce /\ GlobsKept /\ Originals

Answered ==
  failures = 0 => pending = {} /\ known = DOMAIN client /\ \A t \in DOMAIN tasks : ~tasks[t].failed
Single == ~overlapped => DOMAIN tasks \subseteq {Len(snaps)}

\* The counts: what is wanted, less what the tasks have yet to acquire, plus what they have
\* yet to release.
HasGlob(w, g) == w # None /\ g \in w.globs
Acquiring(t, g) == tasks[t].pc = "acquire" /\ g \in tasks[t].todo
Releasing(t, g) ==
  \/ tasks[t].pc \in Updating /\ HasGlob(tasks[t].old, g)
  \/ tasks[t].pc = "release" /\ g \in tasks[t].todo
Entering(t, s, g) == s \in tasks[t].slots /\ Changes(t, s) /\ HasGlob(snaps[t][s], g)
Leaving(t, s, g) == s \in tasks[t].slots /\ Changes(t, s) /\ HasGlob(snaps[t - 1][s], g)
ToAcquire(g) ==
  {p \in (DOMAIN tasks) \X Slots : Entering(p[1], p[2], g)}
  \cup {<<t>> : t \in {u \in DOMAIN tasks : Acquiring(u, g)}}
ToGiveUp(g) ==
  {p \in (DOMAIN tasks) \X Slots : Leaving(p[1], p[2], g)}
  \cup {<<t>> : t \in {u \in DOMAIN tasks : Releasing(u, g)}}
Due(g) == Cardinality(WantedBy(g)) - Cardinality(ToAcquire(g)) + Cardinality(ToGiveUp(g))
Counted ==
  failures = 0 => \A g \in Globs :
    entries[g].count >= Due(g) /\ (~overlapped => entries[g].count = Due(g))

\* Ids name globs of watchers.
Names(c, g) == \E w \in Used : g \in w.globs /\ c = GlobID(w, g)
Named ==
  /\ \A g \in Globs : entries[g].count > 0 => Names(entries[g].id, g)
  /\ \A t \in DOMAIN tasks : \A c \in tasks[t].gone : \E g \in Globs : Names(c, g)
  /\ \A c \in DOMAIN client : Names(c, client[c])

\* As long as ids name one set of globs each.
Distinct == failures = 0 /\ (NoneRecloned \/ ~overlapped)
ToBeWatched(t, g) ==
  \/ tasks[t].pc = "acquire" /\ g \in tasks[t].fresh
  \/ tasks[t].pc = "watch" /\ g \in tasks[t].todo
Gone(c) == \E t \in DOMAIN tasks : c \in tasks[t].gone
Taken(w, g) == (entries[g].count > 0 /\ entries[g].id = GlobID(w, g)) \/ Gone(GlobID(w, g))
Ahead(w, g) ==
  \E t \in DOMAIN tasks :
    \/ \E s \in tasks[t].slots : Brings(t, s, w)
    \/ tasks[t].want = w /\ Acquiring(t, g)
Registered(c, g) == c \in DOMAIN client /\ client[c] = g
Unique ==
  Distinct =>
    /\ \A g \in Globs : entries[g].count > 0 =>
         /\ entries[g].id[1] # 0 /\ ~Gone(entries[g].id)
         /\ \/ Registered(entries[g].id, g)
            \/ \E t \in DOMAIN tasks : ToBeWatched(t, g) /\ entries[g].id = GlobID(tasks[t].want, g)
    /\ \A c \in IDs : c \in DOMAIN client \/ Gone(c) => c[1] # 0
    /\ \A t \in DOMAIN tasks, g \in Globs : ToBeWatched(t, g) => tasks[t].want.id # 0
    /\ \A w \in Used : \A g \in w.globs : w.id # 0 /\ Taken(w, g) => ~Ahead(w, g)

\* If also one task runs at a time, nothing else is registered.
Exact ==
  failures = 0 /\ ~overlapped =>
    /\ \A c \in DOMAIN client :
         Gone(c) \/ (entries[client[c]].count > 0 /\ entries[client[c]].id = c)
    /\ \A t \in DOMAIN tasks, g \in Globs : ToBeWatched(t, g) =>
         entries[g].count > 0 /\ entries[g].id = GlobID(tasks[t].want, g)

\* Failures: a glob of one watcher.
Open(t, g) ==
  \/ tasks[t].pc \in {"acquire", "watch"} /\ g \in tasks[t].fresh
  \/ tasks[t].pc = "rollback" /\ g \in tasks[t].todo
Unsettled(t, g) ==
  Open(t, g) /\ (tasks[t].pc = "watch" => g \in tasks[t].todo \/ tasks[t].failed)
Sole(w, g) == w \in Used /\ {v \in Used : g \in v.globs} = {w}
Coming(w) ==
  \E t \in DOMAIN tasks :
    \/ \E s \in tasks[t].slots : Brings(t, s, w)
    \/ tasks[t].pc \in Updating /\ tasks[t].want = w
HasAcquired(t, w, g) ==
  tasks[t].pc \in {"acquire", "watch", "clear"} /\ tasks[t].want = w /\ ~Acquiring(t, g)
Remembered(w, g) ==
  /\ ~Gone(GlobID(w, g))
  /\ entries[g].count > 0 =>
       Registered(GlobID(w, g), g) \/ \E t \in DOMAIN tasks : Unsettled(t, g)
  /\ w.id \in pending \/ Registered(GlobID(w, g), g) \/ Coming(w)
  /\ \A t \in DOMAIN tasks : HasAcquired(t, w, g) => entries[g].count > 0
Failing ==
  ~overlapped =>
    /\ \A t \in DOMAIN tasks, g \in Globs : Open(t, g) => entries[g].count = 1
    /\ \A s \in Slots, g \in Globs : Now[s] # None /\ Sole(Now[s], g) => Remembered(Now[s], g)

\* The extensions.
Mapped ==
  /\ mappers.snap <= Len(snaps)
  /\ failures = 0 =>
       /\ mappers.client = mappers.recorded /\ mappers.active = (mappers.recorded # {})
       /\ mappers.recorded = (IF mappers.snap = 0 THEN {} ELSE Extensions(snaps[mappers.snap]))
       /\ \A n \in 2 .. Len(snaps) : n \notin DOMAIN tasks => n <= mappers.snap

IInv ==
  Typed /\ Shapes /\ Sources /\ History /\ Answered /\ Single /\ Counted /\ Named /\ Unique /\ Exact
  /\ Failing /\ Mapped

-----------------------------------------------------------------------------
(* Helpers.                                                                     *)

\* The smallest of a set of numbers is one of them.
LEMMA MinIn == ASSUME NEW S \in SUBSET Nat, S # {} PROVE Min(S) \in S
<1>1. PICK x \in S : \A y \in S : ~(<<y, x>> \in OpToRel(<, Nat))
  BY NatLessThanWellFounded, WFMin, Zenon
<1>2. \A y \in S : ~(y < x)
  BY <1>1, Zenon DEF OpToRel
<1>3. \E z \in S : \A y \in S : z =< y
  BY <1>2
<1> QED BY <1>3 DEF Min

\* The globs are finitely many numbers.
LEMMA GlobsAreNumbers == Globs \subseteq Nat /\ IsFiniteSet(Globs)
  BY GlobsAssumption

\* An id tells its watcher's id and, of its globs, the one it is for.
LEMMA IdIs ==
  ASSUME NEW w \in Watcher, NEW g \in w.globs
  PROVE  GlobID(w, g) \in IDs /\ GlobID(w, g)[1] = w.id
<1>1. {h \in w.globs : h < g} \subseteq Globs
  BY DEF Watcher
<1>2. Cardinality({h \in w.globs : h < g}) \in Nat
  BY <1>1, GlobsAreNumbers, FS_Subset, FS_CardinalityType
<1> QED BY <1>2 DEF GlobID, IDs, Watcher

\* A watcher's globs have ids of their own.
LEMMA IdsDiffer ==
  ASSUME NEW w \in Watcher, NEW g \in w.globs, NEW h \in w.globs, GlobID(w, g) = GlobID(w, h)
  PROVE  g = h
<1> DEFINE Below(x) == {y \in w.globs : y < x}
<1>1. w.globs \subseteq Globs /\ w.globs \subseteq Nat
  BY GlobsAreNumbers DEF Watcher
<1>2. \A x \in w.globs : IsFiniteSet(Below(x))
  BY <1>1, GlobsAreNumbers, FS_Subset
<1>3. ASSUME NEW x \in w.globs, NEW y \in w.globs, x < y
      PROVE  Cardinality(Below(x)) < Cardinality(Below(y))
  <2>1. Below(x) \subseteq Below(y) /\ x \in Below(y) /\ x \notin Below(x)
    BY <1>1, <1>3
  <2>2. IsFiniteSet(Below(y)) /\ IsFiniteSet(Below(x))
    BY <1>2
  <2> HIDE DEF Below
  <2>3. Below(x) \in SUBSET Below(y) /\ Below(x) # Below(y)
    BY <2>1
  <2>4. Cardinality(Below(x)) <= Cardinality(Below(y)) /\ Cardinality(Below(x)) # Cardinality(Below(y))
    BY <2>2, <2>3, FS_Subset
  <2>5. Cardinality(Below(x)) \in Nat /\ Cardinality(Below(y)) \in Nat
    BY <2>2, FS_CardinalityType
  <2> QED BY <2>4, <2>5
<1>4. Cardinality(Below(g)) = Cardinality(Below(h))
  BY DEF GlobID
<1>5. Cardinality(Below(g)) \in Nat /\ Cardinality(Below(h)) \in Nat
  BY <1>2, FS_CardinalityType
<1>6. g \in Nat /\ h \in Nat
  BY <1>1
<1>7. CASE g < h
  <2>1. Cardinality(Below(g)) < Cardinality(Below(h))
    BY <1>3, <1>7
  <2> QED BY <1>4, <1>5, <2>1
<1>8. CASE h < g
  <2>1. Cardinality(Below(h)) < Cardinality(Below(g))
    BY <1>3, <1>8
  <2> QED BY <1>4, <1>5, <2>1
<1> QED BY <1>6, <1>7, <1>8

\* Functions that are extended and cut.
LEMMA WithIs ==
  ASSUME NEW f, NEW k, NEW v
  PROVE  /\ DOMAIN With(f, k, v) = DOMAIN f \cup {k} /\ With(f, k, v)[k] = v
         /\ \A x \in DOMAIN f : x # k => With(f, k, v)[x] = f[x]
  BY DEF With

\* A function that has lost a key.
LEMMA WithoutIs ==
  ASSUME NEW f, NEW k
  PROVE  /\ DOMAIN Without(f, k) = DOMAIN f \ {k}
         /\ \A x \in DOMAIN f : x # k => Without(f, k)[x] = f[x]
  BY DEF Without

-----------------------------------------------------------------------------
(* What a step makes of its task.                                               *)

\* Task t has taken a step, the others have not.
Moved(t) ==
  /\ DOMAIN tasks' = DOMAIN tasks /\ tasks' \in [DOMAIN tasks -> Tasks] /\ Shape(tasks'[t])
  /\ \A u \in DOMAIN tasks : u # t => tasks'[u] = tasks[u]

\* Giving a task its next state moves that task alone.
LEMMA BecomeMoves ==
  ASSUME Typed, NEW t \in DOMAIN tasks, NEW k, k \in Tasks, Shape(k), Become(t, k)
  PROVE  Moved(t) /\ tasks'[t] = k
<1>1. tasks \in [DOMAIN tasks -> Tasks]
  BY DEF Typed
<1> QED BY <1>1 DEF Become, Moved

\* A task goes on with the update it is at, or is done with it.
SameUpdate(k, r) == r.slots = k.slots /\ r.old = k.old /\ r.want = k.want

\* Visit: the task is at its slots again.
LEMMA Visiting ==
  ASSUME NEW k \in Tasks
  PROVE  LET r == Visit(k) IN
         /\ r \in Tasks /\ Shape(r) /\ r.pc = "visit" /\ r.slots = k.slots /\ r.todo = {} /\ r.fresh = {}
         /\ r.gone = {} /\ ~r.failed
  BY DEF Visit, Go, Tasks, Shape, Loops, Updating

\* ToVisit: ids that are left are unregistered first.
LEMMA Unwatching ==
  ASSUME NEW k \in Tasks
  PROVE  LET r == ToVisit(k) IN
         /\ r \in Tasks /\ Shape(r) /\ r.slots = k.slots /\ r.gone = k.gone
         /\ \/ r.pc = "visit" /\ k.gone = {}
            \/ r.pc = "unwatch" /\ k.gone # {} /\ SameUpdate(k, r)
<1>1. CASE k.gone = {}
  BY <1>1, Visiting DEF ToVisit
<1>2. CASE k.gone # {}
  BY <1>2 DEF ToVisit, Go, Tasks, Shape, Loops, Updating, SameUpdate
<1> QED BY <1>1, <1>2

\* ToRelease: the old watcher's globs are released, if there are any.
LEMMA ReleasingOld ==
  ASSUME NEW k \in Tasks, k.gone = {}
  PROVE  LET r == ToRelease(k) IN
         /\ r \in Tasks /\ Shape(r) /\ r.slots = k.slots /\ r.gone = {}
         /\ \/ r.pc = "visit" /\ \A g : ~HasGlob(k.old, g)
            \/ r.pc = "release" /\ SameUpdate(k, r) /\ k.old # None /\ r.todo = k.old.globs
<1>1. CASE k.old = None \/ k.old.globs = {}
  BY <1>1, Visiting DEF ToRelease, HasGlob
<1>2. CASE ~(k.old = None \/ k.old.globs = {})
  <2>1. k.old.globs \in SUBSET Globs
    BY <1>2 DEF Tasks, Watcher
  <2> QED BY <1>2, <2>1 DEF ToRelease, Go, Tasks, Shape, Loops, Updating, SameUpdate
<1> QED BY <1>1, <1>2

\* ToSettle: an update that failed is rolled back, another clears its mark.
LEMMA Settling ==
  ASSUME NEW k \in Tasks, k.want # None, k.gone = {}, k.fresh \subseteq k.want.globs
  PROVE  LET r == ToSettle(k) IN
         /\ r \in Tasks /\ Shape(r) /\ SameUpdate(k, r) /\ r.gone = {} /\ r.fresh = k.fresh
         /\ r.failed = k.failed
         /\ \/ r.pc = "rollback" /\ r.failed /\ r.todo = r.fresh
            \/ r.pc = "clear" /\ ~r.failed
  BY DEF ToSettle, Go, Tasks, Shape, Loops, Updating, SameUpdate

\* ToWatch: what was newly counted is registered.
LEMMA WatchingNew ==
  ASSUME NEW k \in Tasks, k.want # None, k.gone = {}, k.fresh \subseteq k.want.globs, ~k.failed
  PROVE  LET r == ToWatch(k) IN
         /\ r \in Tasks /\ Shape(r) /\ SameUpdate(k, r) /\ r.gone = {} /\ r.fresh = k.fresh /\ ~r.failed
         /\ \/ r.pc = "watch" /\ r.todo = r.fresh
            \/ r.pc = "clear" /\ r.fresh = {}
<1>1. CASE k.fresh = {}
  BY <1>1, Settling DEF ToWatch
<1>2. CASE k.fresh # {}
  BY <1>2 DEF ToWatch, Go, Tasks, Shape, Loops, Updating, SameUpdate
<1> QED BY <1>1, <1>2

\* The next glob of a loop is one that it has left.
LEMMA NextGlob ==
  ASSUME Typed, NEW t \in DOMAIN tasks, tasks[t].todo # {}
  PROVE  Min(tasks[t].todo) \in tasks[t].todo /\ tasks[t].todo \subseteq Globs
<1>1. tasks[t].todo \in SUBSET Globs
  BY DEF Typed, Tasks
<1> QED BY <1>1, MinIn, GlobsAreNumbers

\* Acquire counts one glob that the loop has left, and goes on.
LEMMA AcquireDoes ==
  ASSUME Typed, Shapes, NEW t \in DOMAIN tasks, Acquire(t)
  PROVE  LET k == tasks[t]
             r == tasks'[t]
         IN  /\ Moved(t) /\ k.pc = "acquire" /\ SameUpdate(k, r) /\ r.gone = {} /\ ~r.failed
             /\ \E g \in k.todo :
                  /\ g \in Globs
                  /\ entries' = [entries EXCEPT ![g] =
                       [count |-> entries[g].count + 1,
                        id |-> IF entries[g].count = 0 THEN GlobID(k.want, g) ELSE entries[g].id]]
                  /\ r.fresh = IF entries[g].count = 0 THEN k.fresh \cup {g} ELSE k.fresh
                  /\ \/ r.pc = "acquire" /\ r.todo = k.todo \ {g}
                     \/ r.pc = "watch" /\ k.todo = {g} /\ r.todo = r.fresh
                     \/ r.pc = "clear" /\ k.todo = {g} /\ r.fresh = {}
<1> DEFINE k == tasks[t]
           g == Min(k.todo)
           new == entries[g].count = 0
           m == [k EXCEPT !.todo = @ \ {g}, !.fresh = IF new THEN @ \cup {g} ELSE @]
<1>1. /\ k \in Tasks /\ k.pc = "acquire" /\ k.want # None /\ k.todo # {} /\ k.todo \subseteq k.want.globs \ k.fresh
      /\ ~k.failed /\ k.gone = {} /\ k.fresh \subseteq k.want.globs
  BY DEF Acquire, Typed, Shapes, Shape, Updating
<1>2. g \in k.todo /\ g \in Globs
  BY <1>1, NextGlob
<1>3. /\ m \in Tasks /\ SameUpdate(k, m) /\ m.pc = "acquire" /\ m.gone = {} /\ ~m.failed /\ m.todo = k.todo \ {g}
      /\ m.fresh = (IF new THEN k.fresh \cup {g} ELSE k.fresh) /\ m.want = k.want
  BY <1>1, <1>2 DEF Tasks, SameUpdate
<1>4. m.fresh \subseteq m.want.globs /\ m.todo \subseteq m.want.globs \ m.fresh
  BY <1>1, <1>2, <1>3
<1>5. /\ entries' = [entries EXCEPT ![g] = [count |-> entries[g].count + 1,
                                            id |-> IF new THEN GlobID(k.want, g) ELSE entries[g].id]]
      /\ Become(t, IF m.todo # {} THEN m ELSE ToWatch(m))
  BY <1>2 DEF Acquire, LoopOr, Typed
<1> HIDE DEF m, g, new
<1>6. CASE m.todo # {}
  <2>1. Shape(m)
    BY <1>1, <1>3, <1>4, <1>6 DEF Shape, Updating
  <2>2. Moved(t) /\ tasks'[t] = m
    BY <1>3, <1>5, <1>6, <2>1, BecomeMoves
  <2> QED BY <1>1, <1>2, <1>3, <1>5, <2>2 DEF new
<1>7. CASE m.todo = {}
  <2> DEFINE r == ToWatch(m)
  <2>1. /\ r \in Tasks /\ Shape(r) /\ SameUpdate(m, r) /\ r.gone = {} /\ r.fresh = m.fresh /\ ~r.failed
        /\ \/ r.pc = "watch" /\ r.todo = r.fresh
           \/ r.pc = "clear" /\ r.fresh = {}
    BY <1>1, <1>3, <1>4, WatchingNew
  <2> HIDE DEF r
  <2>2. Moved(t) /\ tasks'[t] = r
    BY <1>5, <1>7, <2>1, BecomeMoves DEF r
  <2>3. k.todo = {g}
    BY <1>2, <1>3, <1>7
  <2> QED BY <1>1, <1>2, <1>3, <1>5, <2>1, <2>2, <2>3 DEF SameUpdate, new
<1> QED BY <1>6, <1>7

\* WatchFiles registers one glob, or fails to.
LEMMA WatchDoes ==
  ASSUME Typed, Shapes, NEW t \in DOMAIN tasks, WatchFiles(t)
  PROVE  LET k == tasks[t]
             r == tasks'[t]
         IN  /\ Moved(t) /\ k.pc = "watch" /\ SameUpdate(k, r) /\ r.gone = {} /\ r.fresh = k.fresh
             /\ k.todo \subseteq k.fresh /\ k.fresh \subseteq k.want.globs
             /\ \E g \in k.todo :
                  /\ g \in Globs
                  /\ \/ /\ client' = With(client, GlobID(k.want, g), g)
                        /\ known' = known \cup {GlobID(k.want, g)}
                        /\ failures' = failures /\ r.failed = k.failed
                     \/ /\ failures < MaxFailures /\ failures' = failures + 1
                        /\ client' \in {client, With(client, GlobID(k.want, g), g)} /\ known' = known
                        /\ r.failed
                  /\ \/ r.pc = "watch" /\ r.todo = k.todo \ {g}
                     \/ r.pc = "rollback" /\ k.todo = {g} /\ r.failed /\ r.todo = r.fresh
                     \/ r.pc = "clear" /\ k.todo = {g} /\ ~r.failed
<1> DEFINE k == tasks[t]
           g == Min(k.todo)
           c == GlobID(k.want, g)
<1>1. /\ k \in Tasks /\ k.pc = "watch" /\ k.want # None /\ k.todo # {} /\ k.todo \subseteq k.fresh
      /\ k.gone = {} /\ k.fresh \subseteq k.want.globs
  BY DEF WatchFiles, Typed, Shapes, Shape, Updating
<1>2. g \in k.todo /\ g \in Globs
  BY <1>1, NextGlob
<1>3. \E b \in BOOLEAN :
        LET m == [k EXCEPT !.todo = @ \ {g}, !.failed = b] IN
        /\ Become(t, IF m.todo # {} THEN m ELSE ToSettle(m))
        /\ \/ client' = With(client, c, g) /\ known' = known \cup {c} /\ failures' = failures /\ b = k.failed
           \/ /\ failures < MaxFailures /\ failures' = failures + 1
              /\ client' \in {client, With(client, c, g)} /\ known' = known /\ b
  <2>1. CASE client' = With(client, c, g) /\ known' = known \cup {c} /\ UNCHANGED failures
             /\ Become(t, LoopOr([k EXCEPT !.todo = @ \ {g}], ToSettle))
    <3>1. k.failed \in BOOLEAN /\ [k EXCEPT !.todo = @ \ {g}] = [k EXCEPT !.todo = @ \ {g}, !.failed = k.failed]
      BY <1>1 DEF Tasks
    <3> HIDE DEF k, g, c
    <3> QED BY <2>1, <3>1 DEF LoopOr
  <2>2. CASE /\ failures < MaxFailures /\ failures' = failures + 1 /\ client' \in {client, With(client, c, g)}
             /\ Become(t, LoopOr([[k EXCEPT !.todo = @ \ {g}] EXCEPT !.failed = TRUE], ToSettle))
             /\ UNCHANGED known
    <3>1. [[k EXCEPT !.todo = @ \ {g}] EXCEPT !.failed = TRUE] = [k EXCEPT !.todo = @ \ {g}, !.failed = TRUE]
      BY <1>1 DEF Tasks
    <3> HIDE DEF k, g, c
    <3> QED BY <2>2, <3>1 DEF LoopOr
  <2> QED BY <2>1, <2>2 DEF WatchFiles
<1>4. PICK b \in BOOLEAN :
        LET m == [k EXCEPT !.todo = @ \ {g}, !.failed = b] IN
        /\ Become(t, IF m.todo # {} THEN m ELSE ToSettle(m))
        /\ \/ client' = With(client, c, g) /\ known' = known \cup {c} /\ failures' = failures /\ b = k.failed
           \/ /\ failures < MaxFailures /\ failures' = failures + 1
              /\ client' \in {client, With(client, c, g)} /\ known' = known /\ b
  BY <1>3
<1> DEFINE m == [k EXCEPT !.todo = @ \ {g}, !.failed = b]
<1>5. /\ m \in Tasks /\ SameUpdate(k, m) /\ m.pc = "watch" /\ m.gone = {} /\ m.failed = b
      /\ m.todo = k.todo \ {g} /\ m.fresh = k.fresh /\ m.want = k.want
  BY <1>1, <1>2 DEF Tasks, SameUpdate
<1>6. Become(t, IF m.todo # {} THEN m ELSE ToSettle(m))
  BY <1>4
<1> HIDE DEF m, g
<1>7. CASE m.todo # {}
  <2>1. Shape(m)
    BY <1>1, <1>5, <1>7 DEF Shape, Updating
  <2>2. Moved(t) /\ tasks'[t] = m
    BY <1>5, <1>6, <1>7, <2>1, BecomeMoves
  <2> QED BY <1>1, <1>2, <1>4, <1>5, <2>2
<1>8. CASE m.todo = {}
  <2> DEFINE r == ToSettle(m)
  <2>1. /\ r \in Tasks /\ Shape(r) /\ SameUpdate(m, r) /\ r.gone = {} /\ r.fresh = m.fresh
        /\ r.failed = m.failed
        /\ \/ r.pc = "rollback" /\ r.failed /\ r.todo = r.fresh
           \/ r.pc = "clear" /\ ~r.failed
    BY <1>1, <1>5, Settling
  <2> HIDE DEF r
  <2>2. Moved(t) /\ tasks'[t] = r
    BY <1>6, <1>8, <2>1, BecomeMoves DEF r
  <2>3. k.todo = {g}
    BY <1>2, <1>5, <1>8
  <2> QED BY <1>1, <1>2, <1>4, <1>5, <2>1, <2>2, <2>3 DEF SameUpdate
<1> QED BY <1>7, <1>8

\* Rollback gives back one glob that was newly counted.
LEMMA RollbackDoes ==
  ASSUME Typed, Shapes, NEW t \in DOMAIN tasks, Rollback(t)
  PROVE  LET k == tasks[t]
             r == tasks'[t]
         IN  /\ Moved(t) /\ k.pc = "rollback" /\ k.failed /\ r.pc = "rollback" /\ SameUpdate(k, r)
             /\ r.gone = {} /\ r.fresh = k.fresh /\ r.failed
             /\ \E g \in k.todo : g \in Globs /\ entries' = Released(g) /\ r.todo = k.todo \ {g}
<1> DEFINE k == tasks[t]
           g == Min(k.todo)
           m == [k EXCEPT !.todo = @ \ {g}]
<1>1. /\ k \in Tasks /\ k.pc = "rollback" /\ k.want # None /\ k.todo # {} /\ k.todo \subseteq k.fresh
      /\ k.gone = {} /\ k.fresh \subseteq k.want.globs /\ k.failed
  BY DEF Rollback, Typed, Shapes, Shape, Updating
<1>2. g \in k.todo /\ g \in Globs
  BY <1>1, NextGlob
<1>3. /\ m \in Tasks /\ SameUpdate(k, m) /\ m.pc = "rollback" /\ m.gone = {} /\ m.failed
      /\ m.todo = k.todo \ {g} /\ m.fresh = k.fresh /\ m.want = k.want
  BY <1>1, <1>2 DEF Tasks, SameUpdate
<1>4. Shape(m)
  BY <1>1, <1>3 DEF Shape, Updating
<1>5. Become(t, m) /\ entries' = Released(g)
  BY DEF Rollback
<1> HIDE DEF m, g
<1>6. Moved(t) /\ tasks'[t] = m
  BY <1>3, <1>4, <1>5, BecomeMoves
<1> QED BY <1>1, <1>2, <1>3, <1>5, <1>6

\* After the new globs: the old ones, or the next slot.
Turns(t) ==
  LET k == tasks[t]
      r == tasks'[t]
  IN  /\ Moved(t) /\ r.slots = k.slots /\ r.gone = {}
      /\ \/ r.pc = "visit" /\ \A g : ~HasGlob(k.old, g)
         \/ r.pc = "release" /\ SameUpdate(k, r) /\ k.old # None /\ r.todo = k.old.globs

\* MarkPending ends a failed update's acquisition.
LEMMA MarkDoes ==
  ASSUME Typed, Shapes, NEW t \in DOMAIN tasks, MarkPending(t)
  PROVE  /\ Turns(t) /\ tasks[t].pc = "rollback" /\ tasks[t].todo = {} /\ tasks[t].failed
         /\ tasks[t].want # None
<1>1. /\ tasks[t] \in Tasks /\ tasks[t].gone = {} /\ Become(t, ToRelease(tasks[t]))
      /\ tasks[t].pc = "rollback" /\ tasks[t].todo = {} /\ tasks[t].failed /\ tasks[t].want # None
  BY DEF MarkPending, Typed, Shapes, Shape, Updating
<1> QED BY <1>1, ReleasingOld, BecomeMoves DEF Turns

\* ClearPending ends a successful one.
LEMMA ClearDoes ==
  ASSUME Typed, Shapes, NEW t \in DOMAIN tasks, ClearPending(t)
  PROVE  Turns(t) /\ tasks[t].pc = "clear" /\ tasks[t].want # None
<1>1. /\ tasks[t] \in Tasks /\ tasks[t].gone = {} /\ Become(t, ToRelease(tasks[t]))
      /\ tasks[t].pc = "clear" /\ tasks[t].want # None
  BY DEF ClearPending, Typed, Shapes, Shape, Updating
<1> QED BY <1>1, ReleasingOld, BecomeMoves DEF Turns

\* What is written under an id that was counted is an id.
LEMMA EntryIDs ==
  ASSUME Typed, Named, NEW g \in Globs, entries[g].count > 0
  PROVE  entries[g].id \in IDs
<1>1. PICK w \in Used : g \in w.globs /\ entries[g].id = GlobID(w, g)
  BY DEF Named, Names
<1> QED BY <1>1, IdIs DEF Used

\* ReleaseOld gives back one glob of the old watcher.
LEMMA ReleaseDoes ==
  ASSUME Typed, Shapes, Named, NEW t \in DOMAIN tasks, ReleaseOld(t)
  PROVE  LET k == tasks[t]
             r == tasks'[t]
         IN  /\ Moved(t) /\ k.pc = "release" /\ r.slots = k.slots /\ k.old # None
             /\ r.pc # "visit" => SameUpdate(k, r)
             /\ \E g \in k.todo :
                  /\ g \in Globs /\ g \in k.old.globs /\ entries' = Released(g)
                  /\ r.gone = IF entries[g].count = 1 THEN k.gone \cup {entries[g].id} ELSE k.gone
                  /\ \/ r.pc = "release" /\ r.todo = k.todo \ {g}
                     \/ r.pc \in {"visit", "unwatch"} /\ k.todo = {g}
<1> DEFINE k == tasks[t]
           g == Min(k.todo)
           new == IF entries[g].count = 1 THEN k.gone \cup {entries[g].id} ELSE k.gone
           m == [k EXCEPT !.todo = @ \ {g},
                          !.gone = IF entries[g].count = 1 THEN @ \cup {entries[g].id} ELSE @]
<1>1. /\ k \in Tasks /\ k.pc = "release" /\ k.old # None /\ k.todo # {} /\ k.todo \subseteq k.old.globs
  BY DEF ReleaseOld, Typed, Shapes, Shape
<1>2. g \in k.todo /\ g \in Globs
  BY <1>1, NextGlob
<1>3. new \in SUBSET IDs
  BY <1>1, <1>2, EntryIDs DEF Tasks, Typed
<1>4. /\ m \in Tasks /\ SameUpdate(k, m) /\ m.pc = "release" /\ m.gone = new
      /\ m.todo = k.todo \ {g} /\ m.slots = k.slots /\ m.old = k.old
  BY <1>1, <1>2, <1>3 DEF Tasks, SameUpdate
<1>5. Become(t, IF m.todo # {} THEN m ELSE ToVisit(m)) /\ entries' = Released(g)
  BY DEF ReleaseOld, LoopOr
<1> HIDE DEF m, g, new
<1>6. CASE m.todo # {}
  <2>1. Shape(m)
    BY <1>1, <1>4, <1>6 DEF Shape, Updating
  <2>2. Moved(t) /\ tasks'[t] = m
    BY <1>4, <1>5, <1>6, <2>1, BecomeMoves
  <2> QED BY <1>1, <1>2, <1>4, <1>5, <2>2 DEF new
<1>7. CASE m.todo = {}
  <2> DEFINE r == ToVisit(m)
  <2>1. /\ r \in Tasks /\ Shape(r) /\ r.slots = m.slots /\ r.gone = m.gone
        /\ \/ r.pc = "visit" /\ m.gone = {}
           \/ r.pc = "unwatch" /\ m.gone # {} /\ SameUpdate(m, r)
    BY <1>4, Unwatching
  <2> HIDE DEF r
  <2>2. Moved(t) /\ tasks'[t] = r
    BY <1>5, <1>7, <2>1, BecomeMoves DEF r
  <2>3. k.todo = {g}
    BY <1>2, <1>4, <1>7
  <2> QED BY <1>1, <1>2, <1>4, <1>5, <2>1, <2>2, <2>3 DEF SameUpdate, new
<1> QED BY <1>6, <1>7

\* UnwatchFiles drops one id that has gone.
LEMMA UnwatchDoes ==
  ASSUME Typed, Shapes, NEW t \in DOMAIN tasks, UnwatchFiles(t)
  PROVE  LET k == tasks[t]
             r == tasks'[t]
         IN  /\ Moved(t) /\ k.pc = "unwatch" /\ r.slots = k.slots
             /\ r.pc = "visit" \/ (r.pc = "unwatch" /\ SameUpdate(k, r))
             /\ \E id \in k.gone :
                  /\ r.gone = k.gone \ {id}
                  /\ \/ id \notin known /\ UNCHANGED <<known, client, failures>>
                     \/ id \in known /\ known' = known \ {id} /\ client' = Without(client, id) /\ UNCHANGED failures
                     \/ /\ failures < MaxFailures /\ failures' = failures + 1
                        /\ client' \in {client, Without(client, id)} /\ UNCHANGED known
<1> DEFINE k == tasks[t]
<1>1. k \in Tasks /\ k.pc = "unwatch"
  BY DEF UnwatchFiles, Typed
<1>2. PICK id \in k.gone :
        /\ Become(t, ToVisit([k EXCEPT !.gone = @ \ {id}]))
        /\ \/ id \notin known /\ UNCHANGED <<known, client, failures>>
           \/ id \in known /\ known' = known \ {id} /\ client' = Without(client, id) /\ UNCHANGED failures
           \/ /\ failures < MaxFailures /\ failures' = failures + 1
              /\ client' \in {client, Without(client, id)} /\ UNCHANGED known
  BY DEF UnwatchFiles
<1> DEFINE m == [k EXCEPT !.gone = @ \ {id}]
<1>3. m \in Tasks /\ SameUpdate(k, m) /\ m.slots = k.slots /\ m.gone = k.gone \ {id}
  BY <1>1 DEF Tasks, SameUpdate
<1> HIDE DEF m
<1> DEFINE r == ToVisit(m)
<1>4. /\ r \in Tasks /\ Shape(r) /\ r.slots = m.slots /\ r.gone = m.gone
      /\ \/ r.pc = "visit" /\ m.gone = {}
         \/ r.pc = "unwatch" /\ m.gone # {} /\ SameUpdate(m, r)
  BY <1>3, Unwatching
<1> HIDE DEF r
<1>5. Moved(t) /\ tasks'[t] = r
  BY <1>2, <1>4, BecomeMoves DEF r, m
<1> QED BY <1>1, <1>2, <1>3, <1>4, <1>5 DEF SameUpdate

\* A slot is begun: nothing to do, or new globs first, or old ones only.
LEMMA VisitDoes ==
  ASSUME Typed, Shapes, History, Answered, NEW t \in DOMAIN tasks, VisitSlot(t)
  PROVE  LET k == tasks[t]
             r == tasks'[t]
         IN  /\ Moved(t) /\ k.pc = "visit" /\ r.fresh = {} /\ r.gone = {} /\ ~r.failed
             /\ \E s \in k.slots :
                  LET old == snaps[t - 1][s]
                      want == snaps[t][s]
                  IN  /\ r.slots = k.slots \ {s}
                      /\ \/ r.pc = "visit" /\ (old = want \/ \A g : ~HasGlob(old, g) /\ ~HasGlob(want, g))
                         \/ /\ r.pc = "acquire" /\ r.want = want /\ want # None /\ r.todo = want.globs
                            /\ \/ r.old = old /\ old # want
                               \/ r.old = None /\ old = want /\ failures > 0
                         \/ /\ r.pc = "release" /\ r.old = old /\ r.want = want /\ old # want
                            /\ old # None /\ r.todo = old.globs /\ \A g : ~HasGlob(want, g)
<1> DEFINE k == tasks[t]
<1>1. /\ k \in Tasks /\ k.pc = "visit" /\ k.fresh = {} /\ k.gone = {} /\ ~k.failed
      /\ t \in 2 .. Len(snaps)
  BY DEF VisitSlot, Typed, Shapes, Shape
<1>2. PICK s \in k.slots :
       LET old  == snaps[t - 1][s]
           want == snaps[t][s]
       IN  \/ old = None /\ want = None /\ Skip(t, s)
           \/ old = None /\ want # None /\ StartUpdate(t, s, None, want)
           \/ old # None /\ want = None /\ StartUpdate(t, s, old, None)
           \/ /\ old # None /\ want # None
              /\ IF old.id # want.id THEN StartUpdate(t, s, old, want)
                 ELSE IF want.id \in pending THEN StartUpdate(t, s, None, want)
                 ELSE Skip(t, s)
  BY DEF VisitSlot
<1> DEFINE old == snaps[t - 1][s]
           want == snaps[t][s]
<1>3. s \in Slots /\ old \in Watcher \cup {None} /\ want \in Watcher \cup {None} /\ t - 1 \in 1 .. Len(snaps)
  <2>1. s \in Slots /\ t - 1 \in 1 .. Len(snaps) /\ t \in 1 .. Len(snaps) /\ Len(snaps) \in Nat
    BY <1>1 DEF Tasks, Typed
  <2> QED BY <2>1 DEF Typed
<1>4. old # None /\ want # None /\ old.id = want.id => old = want
  BY <1>1, <1>3 DEF History, IdsTell
<1>5. pending # {} => failures > 0
  BY DEF Answered, Typed
<1> HIDE DEF old, want
<1>6. ASSUME Skip(t, s), old = want
      PROVE  /\ Moved(t) /\ tasks'[t].slots = k.slots \ {s} /\ tasks'[t].pc = "visit" /\ tasks'[t].fresh = {}
             /\ tasks'[t].gone = {} /\ ~tasks'[t].failed
  <2> DEFINE r == [k EXCEPT !.slots = @ \ {s}]
  <2>1. r \in Tasks /\ Shape(r) /\ r.slots = k.slots \ {s} /\ r.pc = "visit" /\ r.fresh = {} /\ r.gone = {} /\ ~r.failed
    BY <1>1 DEF Tasks, Shape, Updating
  <2>2. Become(t, r)
    BY <1>6 DEF Skip
  <2> HIDE DEF r
  <2> QED BY <2>1, <2>2, BecomeMoves
<1>7. ASSUME NEW o, StartUpdate(t, s, o, want), o \in {old, None}, o = None => old = None \/ old = want
      PROVE  LET r == tasks'[t] IN
             /\ Moved(t) /\ r.slots = k.slots \ {s} /\ r.fresh = {} /\ r.gone = {} /\ ~r.failed
             /\ \/ r.pc = "visit" /\ \A g : ~HasGlob(o, g) /\ ~HasGlob(want, g)
                \/ r.pc = "acquire" /\ r.want = want /\ want # None /\ r.todo = want.globs /\ r.old = o
                \/ /\ r.pc = "release" /\ r.old = o /\ r.want = want /\ o # None /\ r.todo = o.globs
                   /\ \A g : ~HasGlob(want, g)
  <2> DEFINE m == [k EXCEPT !.slots = @ \ {s}, !.old = o, !.want = want]
  <2>1. /\ m \in Tasks /\ m.slots = k.slots \ {s} /\ m.old = o /\ m.want = want /\ m.fresh = {} /\ m.gone = {}
        /\ ~m.failed
    BY <1>1, <1>3, <1>7 DEF Tasks
  <2>2. Become(t, IF want = None \/ want.globs = {} THEN ToRelease(m) ELSE Go(m, "acquire", want.globs))
    BY <1>7 DEF StartUpdate
  <2> HIDE DEF m
  <2>3. CASE want = None \/ want.globs = {}
    <3> DEFINE r == ToRelease(m)
    <3>1. /\ r \in Tasks /\ Shape(r) /\ r.slots = m.slots /\ r.gone = {}
          /\ \/ r.pc = "visit" /\ \A g : ~HasGlob(m.old, g)
             \/ r.pc = "release" /\ SameUpdate(m, r) /\ m.old # None /\ r.todo = m.old.globs
      BY <2>1, ReleasingOld
    <3>2. r.fresh = {} /\ ~r.failed
      BY <2>1 DEF ToRelease, Visit, Go, Tasks
    <3> HIDE DEF r
    <3>3. Moved(t) /\ tasks'[t] = r
      BY <2>2, <2>3, <3>1, BecomeMoves DEF r
    <3>4. \A g : ~HasGlob(want, g)
      BY <2>3 DEF HasGlob
    <3> QED BY <2>1, <3>1, <3>2, <3>3, <3>4 DEF SameUpdate
  <2>4. CASE ~(want = None \/ want.globs = {})
    <3> DEFINE r == Go(m, "acquire", want.globs)
    <3>1. want.globs \in SUBSET Globs
      BY <1>3, <2>4 DEF Watcher
    <3>2. /\ r \in Tasks /\ r.slots = m.slots /\ r.gone = {} /\ r.fresh = {} /\ ~r.failed /\ r.pc = "acquire"
          /\ r.want = want /\ r.todo = want.globs /\ r.old = o
      BY <2>1, <3>1 DEF Go, Tasks, Loops
    <3> HIDE DEF r
    <3>3. Shape(r)
      BY <2>4, <3>2 DEF Shape, Updating
    <3>4. Moved(t) /\ tasks'[t] = r
      BY <2>2, <2>4, <3>2, <3>3, BecomeMoves DEF r
    <3> QED BY <2>1, <2>4, <3>2, <3>4
  <2> QED BY <2>3, <2>4
<1>8. \/ Skip(t, s) /\ old = want
      \/ StartUpdate(t, s, old, want) /\ old # want
      \/ StartUpdate(t, s, None, want) /\ old = want /\ failures > 0
  BY <1>2, <1>4, <1>5 DEF old, want
<1>9. CASE Skip(t, s) /\ old = want
  BY <1>1, <1>6, <1>9 DEF old, want
<1>10. CASE StartUpdate(t, s, old, want) /\ old # want
  BY <1>1, <1>7, <1>10 DEF old, want
<1>11. CASE StartUpdate(t, s, None, want) /\ old = want /\ failures > 0
  <2>1. \A g : ~HasGlob(None, g)
    BY DEF HasGlob
  <2> QED BY <1>1, <1>7, <1>11, <2>1 DEF old, want
<1> QED BY <1>8, <1>9, <1>10, <1>11

\* A new snapshot: at most one slot differs from the last one's, by a watcher that has gone,
\* one with its predecessor's globs and no id, or one with a new id.
Recloned(w, old) == w \in Watcher /\ w.id = 0 /\ w.globs = IF old = None THEN {} ELSE old.globs
Fresh(w) == w \in Watcher /\ w.id = lastID + 1 /\ lastID' = lastID + 1
OneDiffers(n) ==
  \E s0 : \A s \in Slots :
    \/ snaps'[n][s] = snaps[n - 1][s]
    \/ /\ s = s0
       /\ \/ snaps'[n][s] = None
          \/ Recloned(snaps'[n][s], snaps[n - 1][s])
          \/ Fresh(snaps'[n][s])
AdoptedAs(n) ==
  /\ n = Len(snaps) + 1 /\ n \in 2 .. MaxUpdates + 1 /\ Len(snaps') = n
  /\ snaps' \in Seq([Slots -> Watcher \cup {None}])
  /\ \A m \in 1 .. Len(snaps) : snaps'[m] = snaps[m]
  /\ lastID' \in {lastID, lastID + 1}
  /\ OneDiffers(n)
  /\ n \notin DOMAIN tasks /\ DOMAIN tasks' = DOMAIN tasks \cup {n}
  /\ \A u \in DOMAIN tasks : tasks'[u] = tasks[u]
  /\ tasks'[n].pc = "visit" /\ tasks'[n].slots = Slots /\ tasks'[n].gone = {} /\ Shape(tasks'[n])
  /\ tasks' \in [DOMAIN tasks' -> Tasks]
Adopted == AdoptedAs(Len(snaps) + 1)

\* UpdateSnapshot appends a snapshot that differs in one slot at most, and its task.
LEMMA UpdateDoes == ASSUME Typed, UpdateSnapshot PROVE Adopted
<1> DEFINE n == Len(snaps) + 1
           W == Watcher \cup {None}
           Appends(snap, s0) ==
             /\ snaps' = Append(snaps, snap) /\ lastID' \in {lastID, lastID + 1}
             /\ \A s \in Slots :
                  \/ snap[s] = Now[s]
                  \/ s = s0 /\ (snap[s] = None \/ Recloned(snap[s], Now[s]) \/ Fresh(snap[s]))
<1>1. /\ Len(snaps) \in Nat /\ Len(snaps) >= 1 /\ Len(snaps) <= MaxUpdates /\ MaxUpdates \in Nat
      /\ snaps \in Seq([Slots -> W]) /\ lastID \in 0 .. Len(snaps) - 1
      /\ Now \in [Slots -> W] /\ n - 1 = Len(snaps)
  <2>1. Len(snaps) \in Nat /\ Len(snaps) >= 1 /\ snaps \in Seq([Slots -> W]) /\ lastID \in 0 .. Len(snaps) - 1
    BY DEF Typed
  <2>2. Len(snaps) <= MaxUpdates /\ MaxUpdates \in Nat
    BY BoundsAssumption DEF UpdateSnapshot
  <2>3. snaps[Len(snaps)] \in [Slots -> W]
    BY <2>1
  <2> QED BY <2>1, <2>2, <2>3 DEF Now
<1>2. \E snap \in [Slots -> W] : \E s0 : Appends(snap, s0)
  <2>1. CASE snaps' = Append(snaps, Now) /\ UNCHANGED lastID
    BY <1>1, <2>1
  <2>2. CASE \E s \in Slots : Now[s] # None /\ snaps' = Append(snaps, [Now EXCEPT ![s] = None]) /\ UNCHANGED lastID
    <3>1. PICK s \in Slots : snaps' = Append(snaps, [Now EXCEPT ![s] = None]) /\ UNCHANGED lastID
      BY <2>2
    <3>2. [Now EXCEPT ![s] = None] \in [Slots -> W]
      BY <1>1
    <3>3. \A r \in Slots : [Now EXCEPT ![s] = None][r] = IF r = s THEN None ELSE Now[r]
      BY <1>1
    <3> QED BY <3>1, <3>2, <3>3
  <2>3. CASE \E s \in Slots, globs \in SUBSET Globs :
               /\ snaps' = Append(snaps, [Now EXCEPT ![s] = Clone(@, globs)])
               /\ lastID' = IF Clone(Now[s], globs).id = 0 THEN lastID ELSE lastID + 1
    <3>1. PICK s \in Slots, globs \in SUBSET Globs :
               /\ snaps' = Append(snaps, [Now EXCEPT ![s] = Clone(Now[s], globs)])
               /\ lastID' = IF Clone(Now[s], globs).id = 0 THEN lastID ELSE lastID + 1
      BY <2>3, <1>1
    <3> DEFINE w == Clone(Now[s], globs)
    <3>2. w \in Watcher /\ (Recloned(w, Now[s]) \/ Fresh(w))
      BY <1>1, <3>1 DEF Clone, Watcher, Recloned, Fresh
    <3> HIDE DEF w
    <3>3. [Now EXCEPT ![s] = w] \in [Slots -> W]
      BY <1>1, <3>2
    <3>4. \A r \in Slots : [Now EXCEPT ![s] = w][r] = IF r = s THEN w ELSE Now[r]
      BY <1>1
    <3>5. snaps' = Append(snaps, [Now EXCEPT ![s] = w]) /\ lastID' \in {lastID, lastID + 1}
      BY <3>1 DEF w
    <3> QED BY <3>2, <3>3, <3>4, <3>5
  <2> QED BY <2>1, <2>2, <2>3 DEF UpdateSnapshot
<1>21. PICK snap \in [Slots -> W] : \E s0 : Appends(snap, s0)
  BY <1>2
<1>3. PICK s0 : Appends(snap, s0)
  BY <1>21
<1>4. /\ snaps' \in Seq([Slots -> W]) /\ Len(snaps') = n /\ snaps'[n] = snap
      /\ \A m \in 1 .. Len(snaps) : snaps'[m] = snaps[m]
  BY <1>1, <1>3
<1>5. \A s \in Slots :
        \/ snaps'[n][s] = snaps[n - 1][s]
        \/ s = s0 /\ (snaps'[n][s] = None \/ Recloned(snaps'[n][s], snaps[n - 1][s]) \/ Fresh(snaps'[n][s]))
  BY <1>1, <1>3, <1>4 DEF Now
<1>6. tasks' = With(tasks, n, Begin(n)) /\ n \notin DOMAIN tasks
  BY <1>1 DEF UpdateSnapshot, Typed
<1>7. /\ Begin(n) \in Tasks /\ Shape(Begin(n)) /\ Begin(n).pc = "visit" /\ Begin(n).slots = Slots
      /\ Begin(n).gone = {}
  BY <1>1 DEF Begin, Tasks, Shape, Loops, Updating
<1> HIDE DEF n
<1>8. /\ DOMAIN tasks' = DOMAIN tasks \cup {n} /\ tasks'[n] = Begin(n)
      /\ \A u \in DOMAIN tasks : tasks'[u] = tasks[u]
  BY <1>6 DEF With
<1>9. tasks' \in [DOMAIN tasks' -> Tasks]
  <2>1. tasks' = [x \in DOMAIN tasks \cup {n} |-> IF x = n THEN Begin(n) ELSE tasks[x]]
    BY <1>6 DEF With
  <2>2. \A x \in DOMAIN tasks : tasks[x] \in Tasks
    BY DEF Typed
  <2> QED BY <1>7, <2>1, <2>2
<1>10. n \in 2 .. MaxUpdates + 1
  BY <1>1 DEF n
<1>11. /\ tasks'[n].pc = "visit" /\ tasks'[n].slots = Slots /\ tasks'[n].gone = {} /\ Shape(tasks'[n])
  BY <1>7, <1>8
<1>12. OneDiffers(n)
  BY <1>5 DEF OneDiffers
<1>13. lastID' \in {lastID, lastID + 1}
  BY <1>3
<1>14. n = Len(snaps) + 1 /\ n \notin DOMAIN tasks
  BY <1>6 DEF n
<1>15. AdoptedAs(n)
  BY <1>4, <1>8, <1>9, <1>10, <1>11, <1>12, <1>13, <1>14 DEF AdoptedAs
<1> QED BY <1>15 DEF Adopted, n

\* A task ends.
LEMMA EndDoes ==
  ASSUME Typed, NEW t \in DOMAIN tasks, EndTask(t)
  PROVE  /\ tasks[t].pc = "visit" /\ tasks[t].slots = {}
         /\ DOMAIN tasks' = DOMAIN tasks \ {t} /\ tasks' \in [DOMAIN tasks' -> Tasks]
         /\ \A u \in DOMAIN tasks : u # t => tasks'[u] = tasks[u]
<1>1. tasks' = Without(tasks, t) /\ tasks[t].pc = "visit" /\ tasks[t].slots = {}
  BY DEF EndTask
<1>2. DOMAIN tasks' = DOMAIN tasks \ {t} /\ \A u \in DOMAIN tasks : u # t => tasks'[u] = tasks[u]
  BY <1>1, WithoutIs
<1>3. tasks' = [x \in DOMAIN tasks \ {t} |-> tasks[x]]
  BY <1>1 DEF Without
<1>4. \A x \in DOMAIN tasks : tasks[x] \in Tasks
  BY DEF Typed
<1> QED BY <1>1, <1>2, <1>3, <1>4

-----------------------------------------------------------------------------
(* Types and shapes.                                                            *)

\* Entries keep their types when one is released.
LEMMA ReleasedTypes ==
  ASSUME Typed, NEW g \in Globs
  PROVE  Released(g) \in [Globs -> [count : Nat, id : IDs \cup {<<>>}]]
<1>1. entries \in [Globs -> [count : Nat, id : IDs \cup {<<>>}]]
  BY DEF Typed
<1>2. entries[g] \in [count : Nat, id : IDs \cup {<<>>}]
  BY <1>1
<1>3. Absent \in [count : Nat, id : IDs \cup {<<>>}]
  BY DEF Absent
<1>4. entries[g].count <= 1 \/ [entries[g] EXCEPT !.count = @ - 1] \in [count : Nat, id : IDs \cup {<<>>}]
  BY <1>2
<1> QED BY <1>1, <1>2, <1>3, <1>4 DEF Released

\* What the client has keeps its types.
LEMMA WithTypes ==
  ASSUME Typed, NEW c \in IDs, NEW g \in Globs
  PROVE  /\ With(client, c, g) \in [DOMAIN With(client, c, g) -> Globs]
         /\ DOMAIN With(client, c, g) \subseteq IDs
         /\ Without(client, c) \in [DOMAIN Without(client, c) -> Globs]
         /\ DOMAIN Without(client, c) \subseteq IDs
<1>1. client \in [DOMAIN client -> Globs] /\ DOMAIN client \subseteq IDs
  BY DEF Typed
<1>2. \A x \in DOMAIN client : client[x] \in Globs
  BY <1>1
<1> QED BY <1>1, <1>2 DEF With, Without

\* The watchers of the current update.
LEMMA WatcherTypes ==
  ASSUME Typed, NEW t \in DOMAIN tasks
  PROVE  /\ tasks[t].want # None => tasks[t].want \in Watcher
         /\ tasks[t].old # None => tasks[t].old \in Watcher
         /\ tasks[t].gone \subseteq IDs /\ tasks[t].slots \subseteq Slots /\ tasks[t].fresh \subseteq Globs
         /\ t \in 2 .. Len(snaps) /\ t - 1 \in 1 .. Len(snaps) /\ Len(snaps) \in Nat
         /\ \A s \in Slots : snaps[t][s] \in Watcher \cup {None} /\ snaps[t - 1][s] \in Watcher \cup {None}
<1>1. tasks[t] \in Tasks /\ t \in 2 .. Len(snaps) /\ Len(snaps) \in Nat
  BY DEF Typed
<1>2. snaps[t] \in [Slots -> Watcher \cup {None}] /\ snaps[t - 1] \in [Slots -> Watcher \cup {None}]
  BY <1>1 DEF Typed
<1> QED BY <1>1, <1>2 DEF Tasks

\* What an update wants is a watcher of its snapshot.
LEMMA UsedWant ==
  ASSUME Typed, Sources, Shapes, NEW t \in DOMAIN tasks, tasks[t].pc \in Updating
  PROVE  tasks[t].want \in Used /\ tasks[t].want \in Watcher
<1>1. PICK s \in Slots : tasks[t].want = snaps[t][s]
  BY DEF Sources, Source, Updating
<1>2. tasks[t].want # None
  BY DEF Shapes, Shape
<1> QED BY <1>1, <1>2, WatcherTypes DEF Used, Typed

\* No step but these two changes which watch updates there are.
Steps(t) ==
  \/ VisitSlot(t) \/ Acquire(t) \/ WatchFiles(t) \/ Rollback(t) \/ MarkPending(t) \/ ClearPending(t)
  \/ ReleaseOld(t) \/ UnwatchFiles(t)

\* A step of an update moves its task alone.
LEMMA StepsMove ==
  ASSUME Typed, Shapes, History, Answered, Named, NEW t \in DOMAIN tasks, Steps(t)
  PROVE  Moved(t) /\ snaps' = snaps /\ lastID' = lastID /\ overlapped' = overlapped /\ mappers' = mappers
         /\ failures' \in {failures, failures + 1}
<1>1. snaps' = snaps /\ lastID' = lastID /\ overlapped' = overlapped /\ mappers' = mappers
      /\ failures' \in {failures, failures + 1}
  BY DEF Steps, VisitSlot, Acquire, WatchFiles, Rollback, MarkPending, ClearPending, ReleaseOld, UnwatchFiles
<1> QED
  BY <1>1, VisitDoes, AcquireDoes, WatchDoes, RollbackDoes, MarkDoes, ClearDoes, ReleaseDoes, UnwatchDoes
     DEF Steps, Turns

\* Every step keeps the types and what tasks have in their hands.
LEMMA TypesKept ==
  ASSUME Typed, Shapes, Sources, History, Answered, Named, [Next]_vars
  PROVE  Typed' /\ Shapes'
<1>1. CASE UNCHANGED vars
  BY <1>1 DEF vars, registry, Typed, Shapes
<1>2. CASE UpdateSnapshot
  <2>1. Adopted
    BY <1>2, UpdateDoes
  <2>2. UNCHANGED <<registry, known, client, mappers, failures>> /\ overlapped' \in BOOLEAN
    BY <1>2 DEF UpdateSnapshot, Typed
  <2>3. Shapes'
    BY <2>1 DEF Adopted, AdoptedAs, Shapes
  <2>4. Len(snaps) \in Nat /\ lastID \in 0 .. Len(snaps) - 1 /\ DOMAIN tasks \subseteq 2 .. Len(snaps)
    BY DEF Typed
  <2>5. /\ snaps' \in Seq([Slots -> Watcher \cup {None}]) /\ Len(snaps') \in 1 .. MaxUpdates + 1
        /\ lastID' \in 0 .. Len(snaps') - 1 /\ DOMAIN tasks' \subseteq 2 .. Len(snaps')
        /\ tasks' \in [DOMAIN tasks' -> Tasks] /\ lastID \in 0 .. lastID'
    BY <2>1, <2>4 DEF Adopted, AdoptedAs
  <2>6. pending' \subseteq 0 .. lastID'
    BY <2>2, <2>5 DEF Typed, registry
  <2> QED BY <2>2, <2>3, <2>5, <2>6 DEF Typed, registry
<1>3. ASSUME NEW t \in DOMAIN tasks, EndTask(t) PROVE Typed' /\ Shapes'
  <2>1. /\ DOMAIN tasks' = DOMAIN tasks \ {t} /\ tasks' \in [DOMAIN tasks' -> Tasks]
        /\ \A u \in DOMAIN tasks : u # t => tasks'[u] = tasks[u]
    BY <1>3, EndDoes
  <2>2. UNCHANGED <<snaps, lastID, registry, known, client, overlapped>>
    BY <1>3 DEF EndTask
  <2>3. failures' \in 0 .. MaxFailures
    BY <1>3, BoundsAssumption DEF EndTask, Typed
  <2>4. mappers' \in [recorded : SUBSET Slots, snap : Nat, active : BOOLEAN, client : SUBSET Slots]
    <3> DEFINE M == [recorded : SUBSET Slots, snap : Nat, active : BOOLEAN, client : SUBSET Slots]
               exts == Extensions(snaps[t])
    <3>1. mappers \in M /\ t \in Nat /\ mappers.snap \in Nat
      BY DEF Typed
    <3>2. exts \in SUBSET Slots
      BY DEF Extensions
    <3>3. Max({mappers.snap, t}) \in Nat
      <4>1. mappers.snap >= t \/ t >= mappers.snap
        BY <3>1
      <4>2. \E x \in {mappers.snap, t} : \A y \in {mappers.snap, t} : x >= y
        BY <3>1, <4>1
      <4> QED BY <3>1, <4>2 DEF Max
    <3>4. Cleared \in M
      BY <3>1 DEF Cleared
    <3> HIDE DEF exts
    <3>5. CASE mappers' = [mappers EXCEPT !.snap = Max({@, t})]
      BY <3>1, <3>3, <3>5
    <3>6. CASE mappers' = [recorded |-> exts, snap |-> t, active |-> exts # {},
                           client |-> IF exts = {} THEN Cleared.client ELSE exts]
      BY <3>1, <3>2, <3>4, <3>6
    <3>7. CASE mappers' \in FailedUnregister \cup FailedRegister(exts)
      <4>1. FailedUnregister \subseteq M
        BY <3>1 DEF FailedUnregister
      <4>2. FailedRegister(exts) \subseteq M
        BY <3>2, <3>4 DEF FailedRegister
      <4> QED BY <3>7, <4>1, <4>2
    <3> QED BY <1>3, <3>5, <3>6, <3>7 DEF EndTask, exts
  <2> QED BY <2>1, <2>2, <2>3, <2>4 DEF Typed, Shapes, registry
<1>4. ASSUME NEW t \in DOMAIN tasks, Steps(t) PROVE Typed' /\ Shapes'
  <2>1. Moved(t) /\ snaps' = snaps /\ lastID' = lastID /\ overlapped' = overlapped /\ mappers' = mappers
    BY <1>4, StepsMove
  <2>2. Shapes'
    BY <2>1 DEF Moved, Shapes
  <2>3. DOMAIN tasks' \subseteq 2 .. Len(snaps') /\ tasks' \in [DOMAIN tasks' -> Tasks]
    BY <2>1 DEF Moved, Typed
  <2>4. failures' \in 0 .. MaxFailures
    <3>1. failures' = failures \/ (failures < MaxFailures /\ failures' = failures + 1)
      BY <1>4
         DEF Steps, VisitSlot, Acquire, WatchFiles, Rollback, MarkPending, ClearPending, ReleaseOld, UnwatchFiles
    <3> QED BY <3>1, BoundsAssumption DEF Typed
  <2>5. entries' \in [Globs -> [count : Nat, id : IDs \cup {<<>>}]]
    <3>1. CASE Acquire(t)
      <4>1. tasks[t].want \in Watcher /\ tasks[t].todo \subseteq tasks[t].want.globs
        BY <3>1, UsedWant DEF Acquire, Updating, Shapes, Shape
      <4>2. PICK g \in tasks[t].todo :
              /\ g \in Globs
              /\ entries' = [entries EXCEPT ![g] =
                   [count |-> entries[g].count + 1,
                    id |-> IF entries[g].count = 0 THEN GlobID(tasks[t].want, g) ELSE entries[g].id]]
        BY <3>1, AcquireDoes
      <4>3. GlobID(tasks[t].want, g) \in IDs
        BY <4>1, IdIs
      <4> QED BY <4>2, <4>3 DEF Typed
    <3>2. CASE Rollback(t)
      <4>1. PICK g \in Globs : entries' = Released(g)
        BY <3>2, RollbackDoes
      <4> QED BY <4>1, ReleasedTypes
    <3>3. CASE ReleaseOld(t)
      <4>1. PICK g \in Globs : entries' = Released(g)
        BY <3>3, ReleaseDoes
      <4> QED BY <4>1, ReleasedTypes
    <3>4. CASE UNCHANGED entries
      BY <3>4 DEF Typed
    <3> QED BY <1>4, <3>1, <3>2, <3>3, <3>4
         DEF Steps, VisitSlot, WatchFiles, MarkPending, ClearPending, UnwatchFiles, registry
  <2>6. pending' \subseteq 0 .. lastID'
    <3>1. CASE MarkPending(t)
      <4>1. tasks[t].want.id \in 0 .. lastID
        BY <3>1, UsedWant DEF MarkPending, Updating, History, IdsBelow, Watcher
      <4> QED BY <2>1, <3>1, <4>1 DEF MarkPending, Typed
    <3>2. CASE ClearPending(t)
      BY <2>1, <3>2 DEF ClearPending, Typed
    <3>3. CASE UNCHANGED pending
      BY <2>1, <3>3 DEF Typed
    <3> QED BY <1>4, <3>1, <3>2, <3>3
         DEF Steps, VisitSlot, WatchFiles, Acquire, Rollback, ReleaseOld, UnwatchFiles, registry
  <2>7. known' \subseteq IDs /\ DOMAIN client' \subseteq IDs /\ client' \in [DOMAIN client' -> Globs]
    <3>1. CASE WatchFiles(t)
      <4>1. tasks[t].want \in Watcher
        BY <3>1, UsedWant DEF WatchFiles, Updating
      <4>2. PICK g \in tasks[t].todo :
              /\ g \in Globs /\ g \in tasks[t].want.globs
              /\ client' \in {client, With(client, GlobID(tasks[t].want, g), g)}
              /\ known' \subseteq known \cup {GlobID(tasks[t].want, g)}
        BY <3>1, WatchDoes
      <4>3. GlobID(tasks[t].want, g) \in IDs
        BY <4>1, <4>2, IdIs
      <4> QED BY <4>2, <4>3, WithTypes DEF Typed
    <3>2. CASE UnwatchFiles(t)
      <4>1. PICK c \in tasks[t].gone : client' \in {client, Without(client, c)} /\ known' \subseteq known
        BY <3>2, UnwatchDoes
      <4>2. c \in IDs
        BY <4>1, WatcherTypes
      <4>3. client' \in {client, Without(client, c)} /\ known' \subseteq known
        BY <4>1
      <4>4. \A g \in Globs : Without(client, c) \in [DOMAIN Without(client, c) -> Globs]
                             /\ DOMAIN Without(client, c) \subseteq IDs
        BY <4>2, WithTypes
      <4>5. client \in [DOMAIN client -> Globs] /\ DOMAIN client \subseteq IDs
        BY DEF Typed
      <4>6. Without(client, c) \in [DOMAIN Without(client, c) -> Globs] /\ DOMAIN Without(client, c) \subseteq IDs
        <5>1. \A x \in DOMAIN client : client[x] \in Globs
          BY <4>5
        <5> QED BY <4>5, <5>1 DEF Without
      <4> QED BY <4>3, <4>5, <4>6 DEF Typed
    <3>3. CASE UNCHANGED <<known, client>>
      BY <3>3 DEF Typed
    <3> QED BY <1>4, <3>1, <3>2, <3>3
         DEF Steps, VisitSlot, MarkPending, ClearPending, Acquire, Rollback, ReleaseOld
  <2> QED BY <2>1, <2>2, <2>3, <2>4, <2>5, <2>6, <2>7 DEF Typed
<1> QED BY <1>1, <1>2, <1>3, <1>4 DEF Next, TaskStep, Steps

-----------------------------------------------------------------------------
(* Where an update comes from, and the history of the watchers.                 *)

\* A step that does not begin an update goes on with it or ends it.
LEMMA StepsContinue ==
  ASSUME Typed, Shapes, Named, NEW t \in DOMAIN tasks, Steps(t), ~VisitSlot(t)
  PROVE  /\ tasks[t].pc # "visit" /\ tasks'[t].slots = tasks[t].slots
         /\ tasks'[t].pc = "visit" \/ SameUpdate(tasks[t], tasks'[t])
<1>1. CASE Acquire(t)
  BY <1>1, AcquireDoes DEF SameUpdate
<1>2. CASE WatchFiles(t)
  BY <1>2, WatchDoes DEF SameUpdate
<1>3. CASE Rollback(t)
  BY <1>3, RollbackDoes DEF SameUpdate
<1>4. CASE MarkPending(t)
  BY <1>4, MarkDoes DEF SameUpdate, Turns
<1>5. CASE ClearPending(t)
  BY <1>5, ClearDoes DEF SameUpdate, Turns
<1>6. CASE ReleaseOld(t)
  BY <1>6, ReleaseDoes DEF SameUpdate
<1>7. CASE UnwatchFiles(t)
  BY <1>7, UnwatchDoes DEF SameUpdate
<1> QED BY <1>1, <1>2, <1>3, <1>4, <1>5, <1>6, <1>7 DEF Steps

\* Every step leaves tasks at slots whose watchers they took from the snapshots.
LEMMA SourcesKept ==
  ASSUME Typed, Shapes, Sources, History, Answered, Named, [Next]_vars
  PROVE  Sources'
<1>1. CASE UNCHANGED vars
  BY <1>1 DEF vars, Sources, Source
<1>2. CASE UpdateSnapshot
  <2>1. Adopted /\ failures' = failures
    BY <1>2, UpdateDoes DEF UpdateSnapshot
  <2>2. ASSUME NEW u \in DOMAIN tasks, NEW s \in Slots, Source(u, s) PROVE Source(u, s)'
    <3>1. snaps'[u] = snaps[u] /\ snaps'[u - 1] = snaps[u - 1] /\ tasks'[u] = tasks[u]
      BY <2>1, WatcherTypes DEF Adopted, AdoptedAs
    <3> QED BY <2>1, <2>2, <3>1 DEF Source
  <2> QED BY <2>1, <2>2 DEF Adopted, AdoptedAs, Sources
<1>3. ASSUME NEW t \in DOMAIN tasks, EndTask(t) PROVE Sources'
  <2>1. DOMAIN tasks' = DOMAIN tasks \ {t} /\ \A u \in DOMAIN tasks : u # t => tasks'[u] = tasks[u]
    BY <1>3, EndDoes
  <2>2. snaps' = snaps /\ (failures > 0 => failures' > 0)
    BY <1>3, BoundsAssumption DEF EndTask, Typed
  <2> QED BY <2>1, <2>2 DEF Sources, Source
<1>4. ASSUME NEW t \in DOMAIN tasks, Steps(t) PROVE Sources'
  <2>1. Moved(t) /\ snaps' = snaps /\ (failures > 0 => failures' > 0)
    <3>1. Moved(t) /\ snaps' = snaps /\ failures' \in {failures, failures + 1}
      BY <1>4, StepsMove
    <3>2. failures \in Nat
      BY BoundsAssumption DEF Typed
    <3> QED BY <3>1, <3>2
  <2>2. ASSUME NEW u \in DOMAIN tasks, u # t, tasks'[u].pc # "visit" PROVE \E s \in Slots : Source(u, s)'
    BY <2>1, <2>2 DEF Moved, Sources, Source
  <2>3. ASSUME ~VisitSlot(t), tasks'[t].pc # "visit" PROVE \E s \in Slots : Source(t, s)'
    BY <1>4, <2>1, <2>3, StepsContinue DEF SameUpdate, Sources, Source
  <2>4. ASSUME VisitSlot(t), tasks'[t].pc # "visit" PROVE \E s \in Slots : Source(t, s)'
    <3>1. PICK s \in tasks[t].slots :
            LET r == tasks'[t] IN
            /\ r.slots = tasks[t].slots \ {s}
            /\ r.want = snaps[t][s]
            /\ \/ r.old = snaps[t - 1][s] /\ r.old # r.want
               \/ r.old = None /\ r.want = snaps[t - 1][s] /\ failures > 0
      BY <2>4, VisitDoes
    <3> QED BY <2>1, <3>1, WatcherTypes DEF Source
  <2> QED BY <2>1, <2>2, <2>3, <2>4 DEF Moved, Sources
<1> QED BY <1>1, <1>2, <1>3, <1>4 DEF Next, TaskStep, Steps

\* The snapshots before the new one are as they were.
\* w comes to slot s with the new snapshot.
Arrives(s, w) == snaps'[Len(snaps) + 1][s] = w /\ Now[s] # w

\* What was adopted before stays.
LEMMA Before ==
  ASSUME Typed, Adopted
  PROVE  /\ Len(snaps) \in Nat /\ Len(snaps) >= 1 /\ Len(snaps') = Len(snaps) + 1
         /\ DOMAIN snaps = 1 .. Len(snaps) /\ DOMAIN snaps' = 1 .. Len(snaps')
         /\ \A m \in 1 .. Len(snaps) : snaps'[m] = snaps[m]
         /\ Now = snaps[Len(snaps)] /\ snaps'[Len(snaps)] = Now
         /\ \A m, s, w : m # Len(snaps) + 1 => (Brings(m, s, w)' <=> Brings(m, s, w))
         /\ \A m, s, w : m = Len(snaps) + 1 /\ s \in Slots => (Brings(m, s, w)' <=> Arrives(s, w))
         /\ \A m \in 1 .. Len(snaps), s \in Slots : snaps[m][s] \in Watcher \cup {None}
         /\ lastID \in Nat /\ lastID' \in {lastID, lastID + 1}
<1>1. Len(snaps) \in Nat /\ Len(snaps) >= 1 /\ Len(snaps') = Len(snaps) + 1
      /\ DOMAIN snaps = 1 .. Len(snaps) /\ DOMAIN snaps' = 1 .. Len(snaps')
      /\ \A m \in 1 .. Len(snaps) : snaps'[m] = snaps[m]
  BY DEF Typed, Adopted, AdoptedAs
<1>2. ASSUME NEW m, NEW s, NEW w, m # Len(snaps) + 1 PROVE Brings(m, s, w)' <=> Brings(m, s, w)
  <2>1. m \in 2 .. Len(snaps') <=> m \in 2 .. Len(snaps)
    BY <1>1, <1>2
  <2>2. m \in 2 .. Len(snaps) => snaps'[m] = snaps[m] /\ snaps'[m - 1] = snaps[m - 1]
    BY <1>1
  <2> QED BY <2>1, <2>2 DEF Brings, Changes
<1>3. \A m \in 1 .. Len(snaps), s \in Slots : snaps[m][s] \in Watcher \cup {None}
  <2>1. \A m \in 1 .. Len(snaps) : snaps[m] \in [Slots -> Watcher \cup {None}]
    BY <1>1 DEF Typed
  <2> QED BY <2>1
<1>4. lastID \in Nat /\ lastID' \in {lastID, lastID + 1}
  BY <1>1 DEF Typed, Adopted, AdoptedAs
<1>5. Now = snaps[Len(snaps)] /\ snaps'[Len(snaps)] = Now
  BY <1>1 DEF Now
<1>6. ASSUME NEW m, NEW s \in Slots, NEW w, m = Len(snaps) + 1 PROVE Brings(m, s, w)' <=> Arrives(s, w)
  <2>1. m \in 2 .. Len(snaps') /\ m - 1 = Len(snaps)
    BY <1>1, <1>6
  <2> QED BY <1>5, <1>6, <2>1 DEF Brings, Changes, Arrives
<1> QED BY <1>1, <1>2, <1>3, <1>4, <1>5, <1>6

\* Who comes new, comes to the one slot that differs.
Newcomer(w) ==
  \E s \in Slots : /\ Arrives(s, w) /\ (Recloned(w, Now[s]) \/ Fresh(w))
                   /\ \A r \in Slots : r # s => snaps'[Len(snaps) + 1][r] = Now[r]

\* A watcher that a snapshot brings comes to one slot, recloned or with a new id.
LEMMA NewWatchers ==
  ASSUME Typed, Adopted
  PROVE  /\ Used \subseteq Used'
         /\ \A w \in Used' : w \in Watcher /\ (w \in Used \/ Newcomer(w))
         /\ \A s \in Slots, w \in Watcher : Arrives(s, w) => Newcomer(w) /\ w \in Used'
<1>1. OneDiffers(Len(snaps) + 1) /\ (Len(snaps) + 1) - 1 = Len(snaps) /\ Len(snaps) + 1 \in DOMAIN snaps'
      /\ Len(snaps) \in DOMAIN snaps
  BY Before DEF Adopted, AdoptedAs
<1>2. Used \subseteq Used'
  BY Before DEF Used
<1>3. ASSUME NEW s \in Slots, NEW w \in Watcher, Arrives(s, w) PROVE Newcomer(w)
  <2>1. PICK s0 : \A r \in Slots :
          \/ snaps'[Len(snaps) + 1][r] = Now[r]
          \/ /\ r = s0
             /\ \/ snaps'[Len(snaps) + 1][r] = None
                \/ Recloned(snaps'[Len(snaps) + 1][r], Now[r])
                \/ Fresh(snaps'[Len(snaps) + 1][r])
    BY <1>1 DEF OneDiffers, Now
  <2>2. s = s0 /\ (Recloned(w, Now[s]) \/ Fresh(w))
    BY <1>3, <2>1, NoneAssumption DEF Arrives
  <2> QED BY <1>3, <2>1, <2>2 DEF Newcomer
<1>4. ASSUME NEW w \in Used', w \notin Used PROVE Newcomer(w)
  <2>1. PICK m \in DOMAIN snaps', s \in Slots : snaps'[m][s] = w
    BY DEF Used
  <2>2. w \in Watcher
    BY DEF Used
  <2>3. m \notin DOMAIN snaps
    BY <1>4, <2>1, <2>2, Before DEF Used
  <2>4. m = Len(snaps) + 1
    BY <2>3, <2>1, Before
  <2>5. Now[s] # w
    BY <1>1, <1>4, <2>2, Before DEF Used
  <2>6. Arrives(s, w)
    BY <2>1, <2>4, <2>5 DEF Arrives
  <2> QED BY <1>3, <2>2, <2>6
<1>5. \A w \in Used' : w \in Watcher
  BY DEF Used
<1>6. \A s \in Slots, w \in Watcher : Arrives(s, w) => w \in Used'
  BY <1>1 DEF Arrives, Used
<1> QED BY <1>2, <1>3, <1>4, <1>5, <1>6

\* Of newcomers only those with the new id have one; nobody had it before.
LEMMA NewIds ==
  ASSUME Typed, Adopted, IdsBelow, NEW w, Newcomer(w), w.id # 0
  PROVE  w.id = lastID + 1 /\ lastID' = lastID + 1 /\ w \notin Used
<1>1. Fresh(w)
  BY DEF Newcomer, Recloned
<1>2. lastID \in Nat
  BY Before
<1> QED BY <1>1, <1>2 DEF Fresh, IdsBelow

\* A snapshot that is adopted continues the history of ids.
LEMMA NewHistory == ASSUME Typed, Adopted, History PROVE History'
<1> DEFINE n == Len(snaps) + 1
<1>1. \A s \in Slots : snaps'[1][s] = None
  BY Before DEF History
<1>2. IdsBelow'
  <2>1. ASSUME NEW w \in Used' PROVE w.id <= lastID'
    <3>1. CASE w \in Used
      BY <3>1, Before DEF History, IdsBelow, Used, Watcher
    <3>2. CASE Newcomer(w)
      BY <3>2, Before DEF Newcomer, Recloned, Fresh
    <3> QED BY <3>1, <3>2, NewWatchers
  <2> QED BY <2>1 DEF IdsBelow
<1>3. IdsTell'
  <2>1. ASSUME NEW m \in 2 .. Len(snaps'), NEW s \in Slots, snaps'[m][s] # None, snaps'[m - 1][s] # None,
               snaps'[m][s].id = snaps'[m - 1][s].id
        PROVE  snaps'[m][s] = snaps'[m - 1][s]
    <3>1. CASE m # n
      <4>1. m \in 2 .. Len(snaps) /\ m \in 1 .. Len(snaps) /\ m - 1 \in 1 .. Len(snaps)
        BY <3>1, Before
      <4>2. snaps'[m] = snaps[m] /\ snaps'[m - 1] = snaps[m - 1]
        BY <4>1, Before
      <4> QED BY <2>1, <4>1, <4>2 DEF History, IdsTell
    <3>2. CASE m = n
      <4> DEFINE w == snaps'[Len(snaps) + 1][s]
                 v == Now[s]
      <4>1. Len(snaps) \in 1 .. Len(snaps) /\ snaps'[m - 1][s] = v /\ snaps'[m][s] = w /\ v \in Watcher \cup {None}
        BY <3>2, Before
      <4>2. v # None /\ w # None /\ w.id = v.id /\ v \in Watcher /\ v \in Used
        BY <2>1, <4>1, Before DEF Used
      <4>3. w \in Watcher
        <5>1. snaps'[Len(snaps) + 1] \in [Slots -> Watcher \cup {None}]
          BY Before DEF Adopted, AdoptedAs
        <5> QED BY <4>2, <5>1
      <4>4. SUFFICES ASSUME w # v PROVE FALSE
        BY <4>1
      <4>5. Arrives(s, w)
        BY <4>4 DEF Arrives
      <4>6. PICK r \in Slots :
              /\ Arrives(r, w) /\ (Recloned(w, Now[r]) \/ Fresh(w))
              /\ \A q \in Slots : q # r => snaps'[Len(snaps) + 1][q] = Now[q]
        BY <4>3, <4>5, NewWatchers DEF Newcomer
      <4>7. r = s
        BY <4>4, <4>6
      <4>8. ~Fresh(w)
        <5>1. v.id <= lastID /\ v.id \in Nat
          BY <4>2 DEF History, IdsBelow, Watcher
        <5> QED BY <4>2, <5>1, Before DEF Fresh
      <4>9. w.globs = v.globs /\ w.id = v.id
        BY <4>2, <4>6, <4>7, <4>8 DEF Recloned
      <4>10. w = v
        BY <4>2, <4>3, <4>9 DEF Watcher
      <4> QED BY <4>4, <4>10
    <3> QED BY <3>1, <3>2
  <2> QED BY <2>1 DEF IdsTell
<1>4. IdsUnique'
  <2>1. ASSUME NEW v \in Used', NEW w \in Used', v.id = w.id, v.id # 0, v \in Used \/ w \in Used
        PROVE  v = w
    BY <2>1, NewWatchers, NewIds, Before DEF History, IdsUnique, IdsBelow
  <2>2. ASSUME NEW v \in Used', NEW w \in Used', v.id = w.id, v.id # 0, v \notin Used, w \notin Used
        PROVE  v = w
    <3>1. Newcomer(v) /\ Newcomer(w)
      BY <2>2, NewWatchers
    <3> QED BY <3>1 DEF Newcomer, Arrives
  <2> QED BY <2>1, <2>2 DEF IdsUnique
<1>5. OneSlot'
  <2>1. ASSUME NEW m \in DOMAIN snaps', NEW k \in DOMAIN snaps', NEW s \in Slots, NEW r \in Slots, NEW w \in Used',
               w.id # 0, snaps'[m][s] = w, snaps'[k][r] = w, m <= k
        PROVE  s = r
    <3>1. /\ Len(snaps) \in DOMAIN snaps /\ w \in Watcher
          /\ \A i \in DOMAIN snaps' : i \in DOMAIN snaps \/ i = Len(snaps) + 1
      BY Before, NewWatchers
    <3>2. CASE w \in Used
      <4>1. ASSUME NEW q \in Slots, snaps'[Len(snaps) + 1][q] = w PROVE Now[q] = w
        <5>1. Arrives(q, w) => Newcomer(w)
          BY <3>1, NewWatchers
        <5>2. ~Newcomer(w)
          BY <2>1, <3>2, NewIds DEF History
        <5> QED BY <4>1, <5>1, <5>2 DEF Arrives
      <4>2. \A i \in DOMAIN snaps', q \in Slots : snaps'[i][q] = w => \E j \in DOMAIN snaps : snaps[j][q] = w
        BY <3>1, <4>1, Before
      <4> QED BY <2>1, <3>2, <4>2 DEF History, OneSlot
    <3>3. CASE w \notin Used
      <4>1. \A i \in DOMAIN snaps, q \in Slots : snaps'[i][q] # w /\ Now[q] # w
        BY <3>1, <3>3, Before DEF Used
      <4>2. m = Len(snaps) + 1 /\ k = Len(snaps) + 1
        BY <2>1, <3>1, <4>1
      <4>3. Newcomer(w)
        BY <3>3, NewWatchers
      <4> QED BY <2>1, <3>1, <4>1, <4>2, <4>3 DEF Newcomer
    <3> QED BY <3>2, <3>3
  <2>2. DOMAIN snaps' \subseteq Nat
    BY Before
  <2>3. ASSUME NEW m \in DOMAIN snaps', NEW k \in DOMAIN snaps', NEW s \in Slots, NEW r \in Slots, NEW w \in Used',
               w.id # 0, snaps'[m][s] = w, snaps'[k][r] = w
        PROVE  s = r
    <3>1. m <= k \/ k <= m
      BY <2>2
    <3> QED BY <2>1, <2>3, <3>1
  <2> QED BY <2>3 DEF OneSlot
<1>6. BroughtOnce'
  <2>1. ASSUME NEW m \in Nat, NEW k \in Nat, NEW s \in Slots, NEW r \in Slots, NEW w \in Used',
               w.id # 0, Brings(m, s, w)', Brings(k, r, w)', m # n
        PROVE  k # n /\ m = k
    <3>1. Brings(m, s, w) /\ w \in Watcher
      BY <2>1, Before, NewWatchers
    <3>2. w \in Used
      BY <3>1, Before DEF Brings, Changes, Used
    <3>3. k # n
      <4>1. k = n => Arrives(r, w)
        BY <2>1, Before
      <4> QED BY <2>1, <3>1, <3>2, <4>1, NewWatchers, NewIds DEF History
    <3>4. Brings(k, r, w)
      BY <2>1, <3>3, Before
    <3> QED BY <2>1, <3>1, <3>2, <3>3, <3>4 DEF History, BroughtOnce
  <2>2. ASSUME NEW m \in Nat, NEW k \in Nat, NEW s \in Slots, NEW r \in Slots, NEW w \in Used',
               w.id # 0, Brings(m, s, w)', Brings(k, r, w)'
        PROVE  m = k
    BY <2>1, <2>2
  <2> QED BY <2>2 DEF BroughtOnce
<1>7. GlobsKept'
  <2>1. ASSUME NEW m \in Nat, NEW s \in Slots, NEW w \in Watcher, w.id = 0, w.globs # {}, Brings(m, s, w)'
        PROVE  snaps'[m - 1][s] # None /\ snaps'[m - 1][s].globs = w.globs
    <3>1. CASE m # n
      <4>1. Brings(m, s, w) /\ m - 1 \in 1 .. Len(snaps)
        BY <2>1, <3>1, Before DEF Brings, Changes
      <4> QED BY <2>1, <4>1, Before DEF History, GlobsKept
    <3>2. CASE m = n
      <4>1. snaps'[m - 1] = Now /\ lastID \in Nat /\ Arrives(s, w)
        BY <2>1, <3>2, Before
      <4>2. PICK r \in Slots :
              /\ Arrives(r, w) /\ (Recloned(w, Now[r]) \/ Fresh(w))
              /\ \A q \in Slots : q # r => snaps'[Len(snaps) + 1][q] = Now[q]
        BY <4>1, NewWatchers DEF Newcomer
      <4>3. r = s
        BY <4>1, <4>2 DEF Arrives
      <4> QED BY <2>1, <4>1, <4>2, <4>3 DEF Recloned, Fresh
    <3> QED BY <3>1, <3>2
  <2> QED BY <2>1 DEF GlobsKept
<1>8. Originals'
  <2>1. ASSUME NEW w \in Used', w.globs # {} PROVE \E v \in Used' : v.id # 0 /\ v.globs = w.globs
    <3>1. CASE w \in Used
      BY <2>1, <3>1, NewWatchers DEF History, Originals
    <3>2. CASE Newcomer(w) /\ w.id = 0
      <4>1. PICK s \in Slots : Recloned(w, Now[s])
        BY <3>2, Before DEF Newcomer, Fresh
      <4>2. Len(snaps) \in DOMAIN snaps /\ Now[s] \in Watcher \cup {None}
        BY Before
      <4>3. Now[s] \in Used /\ Now[s].globs = w.globs
        BY <2>1, <4>1, <4>2, Before DEF Recloned, Used
      <4> QED BY <2>1, <4>3, NewWatchers DEF History, Originals
    <3>3. CASE w.id # 0
      BY <3>3
    <3> QED BY <3>1, <3>2, <3>3, NewWatchers
  <2> QED BY <2>1 DEF Originals
<1> QED BY <1>1, <1>2, <1>3, <1>4, <1>5, <1>6, <1>7, <1>8 DEF History

\* No other step changes it.
LEMMA HistoryKept ==
  ASSUME Typed, Shapes, History, Answered, Named, [Next]_vars
  PROVE  History'
<1>1. CASE UpdateSnapshot
  BY <1>1, UpdateDoes, NewHistory
<1>2. CASE UNCHANGED <<snaps, lastID>>
  <2>1. Used' = Used
    BY <1>2 DEF Used
  <2>2. \A n, s, w : Brings(n, s, w)' <=> Brings(n, s, w)
    BY <1>2 DEF Brings, Changes
  <2>3. IdsBelow' /\ IdsUnique' /\ Originals'
    BY <1>2, <2>1 DEF History, IdsBelow, IdsUnique, Originals
  <2>4. IdsTell' /\ OneSlot'
    BY <1>2, <2>1 DEF History, IdsTell, OneSlot
  <2>5. BroughtOnce' /\ GlobsKept'
    BY <1>2, <2>1, <2>2 DEF History, BroughtOnce, GlobsKept
  <2> QED BY <1>2, <2>3, <2>4, <2>5 DEF History
<1>3. UpdateSnapshot \/ UNCHANGED <<snaps, lastID>>
  BY StepsMove DEF Next, TaskStep, Steps, vars, EndTask
<1> QED BY <1>1, <1>2, <1>3

-----------------------------------------------------------------------------
(* Failures, one task at a time, extensions.                                    *)

\* As long as no call failed, server and client agree and no update has failed.
LEMMA AnsweredKept ==
  ASSUME Typed, Shapes, Sources, History, Answered, Named, [Next]_vars
  PROVE  Answered'
<1>0. failures \in Nat
  BY BoundsAssumption DEF Typed
<1>1. CASE UNCHANGED vars
  BY <1>1 DEF vars, registry, Answered
<1>2. CASE UpdateSnapshot
  <2>1. Adopted /\ UNCHANGED <<pending, known, client, failures>>
    BY <1>2, UpdateDoes DEF UpdateSnapshot, registry
  <2>2. \A u \in DOMAIN tasks' : tasks'[u].failed => u \in DOMAIN tasks /\ tasks[u].failed
    BY <2>1 DEF Adopted, AdoptedAs, Shape
  <2> QED BY <2>1, <2>2 DEF Answered
<1>3. ASSUME NEW t \in DOMAIN tasks, EndTask(t) PROVE Answered'
  <2>1. \A u \in DOMAIN tasks' : u \in DOMAIN tasks /\ tasks'[u] = tasks[u]
    BY <1>3, EndDoes
  <2>2. UNCHANGED <<pending, known, client>> /\ failures' \in {failures, failures + 1}
    BY <1>3 DEF EndTask, registry
  <2> QED BY <1>0, <2>1, <2>2 DEF Answered
<1>4. ASSUME NEW t \in DOMAIN tasks, Steps(t) PROVE Answered'
  <2>1. Moved(t) /\ failures' \in {failures, failures + 1}
    BY <1>4, StepsMove
  <2> SUFFICES ASSUME failures' = 0 PROVE pending' = {} /\ known' = DOMAIN client' /\ ~tasks'[t].failed
    BY <1>0, <2>1 DEF Answered, Moved
  <2>2. failures = 0 /\ pending = {} /\ known = DOMAIN client /\ ~tasks[t].failed
    BY <1>0, <2>1 DEF Answered
  <2>3. CASE VisitSlot(t)
    BY <2>2, <2>3, VisitDoes DEF VisitSlot, registry
  <2>4. CASE Acquire(t)
    BY <2>2, <2>4, AcquireDoes DEF Acquire
  <2>5. CASE WatchFiles(t)
    <3>1. pending' = {}
      BY <2>2, <2>5 DEF WatchFiles, registry
    <3>2. PICK g \in tasks[t].todo :
            /\ client' = With(client, GlobID(tasks[t].want, g), g)
            /\ known' = known \cup {GlobID(tasks[t].want, g)}
            /\ tasks'[t].failed = tasks[t].failed
      BY <1>0, <2>2, <2>5, WatchDoes
    <3>3. DOMAIN With(client, GlobID(tasks[t].want, g), g) = DOMAIN client \cup {GlobID(tasks[t].want, g)}
      BY DEF With
    <3> QED BY <2>2, <3>1, <3>2, <3>3
  <2>6. CASE Rollback(t) \/ MarkPending(t)
    BY <2>2, <2>6, RollbackDoes, MarkDoes
  <2>7. CASE ClearPending(t)
    <3>1. pending' = {} /\ known' = known /\ client' = client
      BY <2>2, <2>7 DEF ClearPending
    <3>2. ~tasks'[t].failed
      BY <2>2, <2>7, ClearDoes, StepsContinue DEF ClearPending, ToRelease, Visit, Go, Become, Typed, Tasks
    <3> QED BY <2>2, <3>1, <3>2
  <2>8. CASE ReleaseOld(t)
    <3>1. pending' = {} /\ known' = known /\ client' = client
      BY <2>2, <2>8 DEF ReleaseOld
    <3>2. ~tasks'[t].failed
      BY <2>2, <2>8 DEF ReleaseOld, ToVisit, Visit, LoopOr, Go, Become, Typed, Tasks
    <3> QED BY <2>2, <3>1, <3>2
  <2>9. CASE UnwatchFiles(t)
    <3>1. pending' = {}
      BY <2>2, <2>9 DEF UnwatchFiles, registry
    <3>2. PICK id \in tasks[t].gone :
            \/ id \notin known /\ UNCHANGED <<known, client>>
            \/ id \in known /\ known' = known \ {id} /\ client' = Without(client, id)
      BY <1>0, <2>2, <2>9, UnwatchDoes
    <3>3. ~tasks'[t].failed
      BY <2>2, <2>9 DEF UnwatchFiles, ToVisit, Visit, Go, Become, Typed, Tasks
    <3> QED BY <2>2, <3>1, <3>2, <3>3, WithoutIs
  <2> QED BY <1>4, <2>3, <2>4, <2>5, <2>6, <2>7, <2>8, <2>9 DEF Steps
<1> QED BY <1>1, <1>2, <1>3, <1>4 DEF Next, TaskStep, Steps

\* In order, the only update is that of the current snapshot.
LEMMA SingleKept ==
  ASSUME Typed, Shapes, History, Answered, Named, Single, [Next]_vars
  PROVE  Single'
<1>1. CASE UNCHANGED vars
  BY <1>1 DEF vars, Single
<1>2. CASE UpdateSnapshot
  BY <1>2, UpdateDoes DEF UpdateSnapshot, Adopted, AdoptedAs, Single
<1>3. ASSUME NEW t \in DOMAIN tasks, EndTask(t) PROVE Single'
  BY <1>3, EndDoes DEF EndTask, Single
<1>4. ASSUME NEW t \in DOMAIN tasks, Steps(t) PROVE Single'
  BY <1>4, StepsMove DEF Moved, Single
<1> QED BY <1>1, <1>2, <1>3, <1>4 DEF Next, TaskStep, Steps

\* As long as no call failed, the extensions are those of the newest update that ended.
LEMMA MappedKept ==
  ASSUME Typed, Shapes, History, Answered, Named, Mapped, [Next]_vars
  PROVE  Mapped'
<1>0. failures \in Nat /\ Len(snaps) \in Nat /\ mappers.snap \in Nat /\ DOMAIN tasks \subseteq 2 .. Len(snaps)
  BY BoundsAssumption DEF Typed
<1>1. CASE UNCHANGED vars
  BY <1>1 DEF vars, Mapped, Extensions
<1>2. CASE UpdateSnapshot
  <2>1. Adopted /\ UNCHANGED <<mappers, failures>>
    BY <1>2, UpdateDoes DEF UpdateSnapshot
  <2>2. mappers.snap # 0 => Extensions(snaps'[mappers.snap]) = Extensions(snaps[mappers.snap])
    BY <1>0, <2>1, Before DEF Mapped
  <2>3. Len(snaps') = Len(snaps) + 1 /\ DOMAIN tasks' = DOMAIN tasks \cup {Len(snaps) + 1}
    BY <2>1 DEF Adopted, AdoptedAs
  <2> QED BY <1>0, <2>1, <2>2, <2>3 DEF Mapped
<1>3. ASSUME NEW t \in DOMAIN tasks, EndTask(t) PROVE Mapped'
  <2> DEFINE exts == Extensions(snaps[t])
  <2>1. snaps' = snaps /\ DOMAIN tasks' = DOMAIN tasks \ {t} /\ t \in 2 .. Len(snaps)
    BY <1>0, <1>3, EndDoes DEF EndTask
  <2>2. \A s : Extensions(s)' = Extensions(s)
    BY DEF Extensions
  <2>3. CASE UpToDate(t) /\ mappers' = [mappers EXCEPT !.snap = Max({@, t})] /\ UNCHANGED failures
    <3>1. Max({mappers.snap, t}) = IF t <= mappers.snap THEN mappers.snap ELSE t
      <4>1. mappers.snap \in Nat /\ t \in Nat
        BY <1>0, <2>1
      <4> DEFINE S == {mappers.snap, t}
                 m == IF t <= mappers.snap THEN mappers.snap ELSE t
      <4>2. m \in S /\ \A y \in S : m >= y
        BY <4>1
      <4>3. \A x \in S : (\A y \in S : x >= y) => x = m
        BY <4>1
      <4> HIDE DEF S, m
      <4>4. Max(S) \in S /\ \A y \in S : Max(S) >= y
        BY <4>2 DEF Max
      <4>5. Max(S) = m
        BY <4>3, <4>4
      <4> QED BY <4>5 DEF S, m
    <3>2. mappers \in [recorded : SUBSET Slots, snap : Nat, active : BOOLEAN, client : SUBSET Slots]
      BY DEF Typed
    <3>3. /\ mappers'.snap = (IF t <= mappers.snap THEN mappers.snap ELSE t)
          /\ mappers'.recorded = mappers.recorded /\ mappers'.client = mappers.client
          /\ mappers'.active = mappers.active
      BY <2>3, <3>1, <3>2
    <3>4. ~(t <= mappers.snap) => exts = mappers.recorded
      BY <2>3 DEF UpToDate
    <3>5. mappers'.snap <= Len(snaps)
      BY <1>0, <2>1, <3>3 DEF Mapped
    <3>6. \A n \in 2 .. Len(snaps) : n \notin DOMAIN tasks' /\ (n \notin DOMAIN tasks => n <= mappers.snap) => n <= mappers'.snap
      BY <1>0, <2>1, <3>3
    <3> HIDE DEF exts
    <3>7. failures = 0 =>
            mappers'.recorded = IF mappers'.snap = 0 THEN {} ELSE Extensions(snaps[mappers'.snap])
      BY <1>0, <2>1, <3>3, <3>4 DEF Mapped, exts
    <3> QED BY <2>1, <2>2, <2>3, <3>3, <3>5, <3>6, <3>7 DEF Mapped
  <2>4. CASE /\ ~UpToDate(t) /\ UNCHANGED failures
             /\ mappers' = [recorded |-> exts, snap |-> t, active |-> exts # {},
                            client |-> IF exts = {} THEN Cleared.client ELSE exts]
    <3>1. failures = 0 => Cleared.client = {}
      BY DEF Cleared, Mapped, Typed
    <3>2. ~(t <= mappers.snap) /\ t # 0
      BY <2>1, <2>4 DEF UpToDate
    <3> HIDE DEF exts
    <3>3. /\ mappers'.recorded = exts /\ mappers'.snap = t /\ mappers'.active = (exts # {})
          /\ failures = 0 => mappers'.client = exts
      BY <2>4, <3>1
    <3>4. \A n \in 2 .. Len(snaps) : n \notin DOMAIN tasks' /\ (n \notin DOMAIN tasks => n <= mappers.snap) => n <= t
      BY <1>0, <2>1, <3>2
    <3> QED BY <1>0, <2>1, <2>2, <2>4, <3>2, <3>3, <3>4 DEF Mapped, exts
  <2>5. CASE failures' = failures + 1 /\ mappers' \in FailedUnregister \cup FailedRegister(exts)
    <3>1. mappers'.snap = mappers.snap
      <4>1. mappers \in [recorded : SUBSET Slots, snap : Nat, active : BOOLEAN, client : SUBSET Slots]
        BY DEF Typed
      <4>2. \A m \in FailedUnregister : m.snap = mappers.snap
        BY <4>1 DEF FailedUnregister
      <4>3. Cleared \in [recorded : SUBSET Slots, snap : Nat, active : BOOLEAN, client : SUBSET Slots]
            /\ Cleared.snap = mappers.snap
        BY <4>1 DEF Cleared
      <4>4. \A m \in FailedRegister(exts) : m.snap = mappers.snap
        BY <4>3 DEF FailedRegister
      <4> QED BY <2>5, <4>2, <4>4
    <3> QED BY <1>0, <2>1, <2>5, <3>1 DEF Mapped
  <2> QED BY <1>3, <2>3, <2>4, <2>5 DEF EndTask
<1>4. ASSUME NEW t \in DOMAIN tasks, Steps(t) PROVE Mapped'
  <2>1. /\ DOMAIN tasks' = DOMAIN tasks /\ snaps' = snaps /\ mappers' = mappers
        /\ failures' \in {failures, failures + 1}
    BY <1>4, StepsMove DEF Moved
  <2> QED BY <1>0, <2>1 DEF Mapped, Extensions
<1> QED BY <1>1, <1>2, <1>3, <1>4 DEF Next, TaskStep, Steps

-----------------------------------------------------------------------------
(* The counts.                                                                  *)

\* What tasks have left is finite.
LEMMA FiniteLeft ==
  ASSUME Typed, NEW g
  PROVE  /\ IsFiniteSet(ToAcquire(g)) /\ IsFiniteSet(ToGiveUp(g)) /\ IsFiniteSet(WantedBy(g))
         /\ Cardinality(ToAcquire(g)) \in Nat /\ Cardinality(ToGiveUp(g)) \in Nat
         /\ Cardinality(WantedBy(g)) \in Nat /\ Due(g) \in Int
<1>1. IsFiniteSet(DOMAIN tasks)
  <2>1. DOMAIN tasks \in SUBSET (2 .. Len(snaps)) /\ Len(snaps) \in Int
    BY DEF Typed
  <2>2. IsFiniteSet(2 .. Len(snaps))
    BY <2>1, FS_Interval
  <2> QED BY <2>1, <2>2, FS_Subset
<1>2. IsFiniteSet((DOMAIN tasks) \X Slots)
  BY <1>1, SlotsAssumption, FS_Product
<1>3. ASSUME NEW P \in SUBSET DOMAIN tasks PROVE IsFiniteSet({<<t>> : t \in P})
  <2> DEFINE Q == {<<t>> : t \in P}
             f == [t \in P |-> <<t>>]
  <2>1. f \in Surjection(P, Q)
    BY DEF Surjection
  <2>2. IsFiniteSet(P)
    BY <1>1, FS_Subset
  <2> HIDE DEF f, Q
  <2>3. IsFiniteSet(Q)
    BY <2>1, <2>2, FS_Surjection
  <2> QED BY <2>3 DEF Q
<1>4. IsFiniteSet(ToAcquire(g))
  <2> DEFINE P == {u \in DOMAIN tasks : Acquiring(u, g)}
             Q == {<<t>> : t \in P}
             R == {p \in (DOMAIN tasks) \X Slots : Entering(p[1], p[2], g)}
  <2>1. P \in SUBSET DOMAIN tasks /\ R \in SUBSET ((DOMAIN tasks) \X Slots)
    OBVIOUS
  <2> HIDE DEF P, R
  <2>2. IsFiniteSet(Q) /\ IsFiniteSet(R)
    BY <1>2, <1>3, <2>1, FS_Subset
  <2> HIDE DEF Q
  <2>3. IsFiniteSet(R \cup Q)
    BY <2>2, FS_Union
  <2> QED BY <2>3 DEF ToAcquire, P, Q, R
<1>5. IsFiniteSet(ToGiveUp(g))
  <2> DEFINE P == {u \in DOMAIN tasks : Releasing(u, g)}
             Q == {<<t>> : t \in P}
             R == {p \in (DOMAIN tasks) \X Slots : Leaving(p[1], p[2], g)}
  <2>1. P \in SUBSET DOMAIN tasks /\ R \in SUBSET ((DOMAIN tasks) \X Slots)
    OBVIOUS
  <2> HIDE DEF P, R
  <2>2. IsFiniteSet(Q) /\ IsFiniteSet(R)
    BY <1>2, <1>3, <2>1, FS_Subset
  <2> HIDE DEF Q
  <2>3. IsFiniteSet(R \cup Q)
    BY <2>2, FS_Union
  <2> QED BY <2>3 DEF ToGiveUp, P, Q, R
<1>6. IsFiniteSet(WantedBy(g))
  <2>1. WantedBy(g) \in SUBSET Slots
    BY DEF WantedBy
  <2> QED BY <2>1, SlotsAssumption, FS_Subset
<1> QED BY <1>4, <1>5, <1>6, FS_CardinalityType DEF Due

\* A step of t that begins no slot keeps the slots that are left.
LEMMA LeftSame ==
  ASSUME Typed, NEW t \in DOMAIN tasks, Moved(t), snaps' = snaps, tasks'[t].slots = tasks[t].slots, NEW g
  PROVE  /\ Acquiring(t, g)' = Acquiring(t, g) => ToAcquire(g)' = ToAcquire(g)
         /\ Acquiring(t, g) /\ ~Acquiring(t, g)' => <<t>> \in ToAcquire(g) /\ ToAcquire(g)' = ToAcquire(g) \ {<<t>>}
         /\ Releasing(t, g)' = Releasing(t, g) => ToGiveUp(g)' = ToGiveUp(g)
         /\ Releasing(t, g) /\ ~Releasing(t, g)' => <<t>> \in ToGiveUp(g) /\ ToGiveUp(g)' = ToGiveUp(g) \ {<<t>>}
         /\ WantedBy(g)' = WantedBy(g)
<1>1. \A u \in DOMAIN tasks : \A s : Entering(u, s, g)' = Entering(u, s, g) /\ Leaving(u, s, g)' = Leaving(u, s, g)
  BY DEF Entering, Leaving, Changes, Moved
<1>2. \A u \in DOMAIN tasks : u # t =>
        Acquiring(u, g)' = Acquiring(u, g) /\ Releasing(u, g)' = Releasing(u, g)
  BY DEF Acquiring, Releasing, Moved
<1> DEFINE R == {p \in (DOMAIN tasks) \X Slots : Entering(p[1], p[2], g)}
           L == {p \in (DOMAIN tasks) \X Slots : Leaving(p[1], p[2], g)}
           A == {u \in DOMAIN tasks : Acquiring(u, g)}
           B == {u \in DOMAIN tasks : Releasing(u, g)}
           AA == {u \in DOMAIN tasks : Acquiring(u, g)'}
           BB == {u \in DOMAIN tasks : Releasing(u, g)'}
<1>3. /\ ToAcquire(g) = R \cup {<<u>> : u \in A} /\ ToAcquire(g)' = R \cup {<<u>> : u \in AA}
      /\ ToGiveUp(g) = L \cup {<<u>> : u \in B} /\ ToGiveUp(g)' = L \cup {<<u>> : u \in BB}
  <2>1. DOMAIN tasks' = DOMAIN tasks
    BY DEF Moved
  <2>2. {p \in (DOMAIN tasks) \X Slots : Entering(p[1], p[2], g)'} = R
        /\ {p \in (DOMAIN tasks) \X Slots : Leaving(p[1], p[2], g)'} = L
    BY <1>1
  <2> QED BY <2>1, <2>2 DEF ToAcquire, ToGiveUp
<1>4. <<t>> \notin R /\ <<t>> \notin L
  OBVIOUS
<1>5. Acquiring(t, g)' = Acquiring(t, g) => AA = A
  BY <1>2
<1>6. Acquiring(t, g) /\ ~Acquiring(t, g)' => t \in A /\ AA = A \ {t}
  BY <1>2
<1>7. Releasing(t, g)' = Releasing(t, g) => BB = B
  BY <1>2
<1>8. Releasing(t, g) /\ ~Releasing(t, g)' => t \in B /\ BB = B \ {t}
  BY <1>2
<1>9. WantedBy(g)' = WantedBy(g)
  BY DEF WantedBy, Now
<1> HIDE DEF R, L, A, B, AA, BB
<1> QED BY <1>3, <1>4, <1>5, <1>6, <1>7, <1>8, <1>9

\* A slot that is begun passes from the slots left to the update under way.
LEMMA Passed ==
  ASSUME NEW S, NEW T, IsFiniteSet(S), NEW x, NEW y, x \in S, y \notin S,
         T = (S \ {x}) \cup {y}
  PROVE  Cardinality(T) = Cardinality(S)
<1>1. IsFiniteSet(S \ {x}) /\ Cardinality(S \ {x}) = Cardinality(S) - 1 /\ Cardinality(S) \in Nat
  BY FS_RemoveElement, FS_CardinalityType
<1>2. Cardinality((S \ {x}) \cup {y}) = Cardinality(S \ {x}) + 1
  BY <1>1, FS_AddElement
<1> QED BY <1>1, <1>2

\* Beginning a slot changes nothing that is due.
LEMMA VisitPasses ==
  ASSUME Typed, Shapes, History, Answered, NEW t \in DOMAIN tasks, VisitSlot(t), failures = 0, NEW g
  PROVE  Due(g)' = Due(g)
<1>1. PICK s \in tasks[t].slots :
        LET r    == tasks'[t]
            old  == snaps[t - 1][s]
            want == snaps[t][s]
        IN  /\ r.slots = tasks[t].slots \ {s}
            /\ \/ r.pc = "visit" /\ (old = want \/ \A h : ~HasGlob(old, h) /\ ~HasGlob(want, h))
               \/ r.pc = "acquire" /\ r.want = want /\ want # None /\ r.todo = want.globs /\ r.old = old /\ old # want
               \/ /\ r.pc = "release" /\ r.old = old /\ r.want = want /\ old # want
                  /\ old # None /\ r.todo = old.globs /\ \A h : ~HasGlob(want, h)
  <2>1. ~(failures > 0)
    OBVIOUS
  <2> QED BY <2>1, VisitDoes
<1>2. Moved(t) /\ snaps' = snaps /\ tasks[t].pc = "visit"
  BY VisitDoes DEF VisitSlot
<1>3. s \in Slots /\ t \in 2 .. Len(snaps)
  BY <1>1, WatcherTypes
<1>4. ~Acquiring(t, g) /\ ~Releasing(t, g)
  BY <1>2 DEF Acquiring, Releasing, Updating
<1>5. Entering(t, s, g) <=> Acquiring(t, g)'
  BY <1>1, <1>3 DEF Entering, Acquiring, Changes, HasGlob
<1>6. Leaving(t, s, g) <=> Releasing(t, g)'
  BY <1>1, <1>3 DEF Leaving, Releasing, Changes, HasGlob, Updating
<1>7. ~Entering(t, s, g)' /\ ~Leaving(t, s, g)'
  BY <1>1 DEF Entering, Leaving
<1>8. \A r : r # s => Entering(t, r, g)' = Entering(t, r, g) /\ Leaving(t, r, g)' = Leaving(t, r, g)
  BY <1>1, <1>2 DEF Entering, Leaving, Changes
<1>9. \A u \in DOMAIN tasks : u # t =>
        /\ Acquiring(u, g)' = Acquiring(u, g) /\ Releasing(u, g)' = Releasing(u, g)
        /\ \A r : Entering(u, r, g)' = Entering(u, r, g) /\ Leaving(u, r, g)' = Leaving(u, r, g)
  BY <1>2 DEF Moved, Acquiring, Releasing, Entering, Leaving, Changes
<1>10. DOMAIN tasks' = DOMAIN tasks /\ <<t, s>> \in (DOMAIN tasks) \X Slots
  BY <1>2, <1>3 DEF Moved
<1>11. /\ <<t>> \notin ToAcquire(g) /\ <<t>> \notin ToGiveUp(g)
       /\ Entering(t, s, g) => <<t, s>> \in ToAcquire(g) /\ ToAcquire(g)' = (ToAcquire(g) \ {<<t, s>>}) \cup {<<t>>}
       /\ ~Entering(t, s, g) => ToAcquire(g)' = ToAcquire(g)
       /\ Leaving(t, s, g) => <<t, s>> \in ToGiveUp(g) /\ ToGiveUp(g)' = (ToGiveUp(g) \ {<<t, s>>}) \cup {<<t>>}
       /\ ~Leaving(t, s, g) => ToGiveUp(g)' = ToGiveUp(g)
  <2> DEFINE R == {p \in (DOMAIN tasks) \X Slots : Entering(p[1], p[2], g)}
             L == {p \in (DOMAIN tasks) \X Slots : Leaving(p[1], p[2], g)}
             RR == {p \in (DOMAIN tasks) \X Slots : Entering(p[1], p[2], g)'}
             LL == {p \in (DOMAIN tasks) \X Slots : Leaving(p[1], p[2], g)'}
             A == {u \in DOMAIN tasks : Acquiring(u, g)}
             B == {u \in DOMAIN tasks : Releasing(u, g)}
             AA == {u \in DOMAIN tasks : Acquiring(u, g)'}
             BB == {u \in DOMAIN tasks : Releasing(u, g)'}
  <2>1. /\ ToAcquire(g) = R \cup {<<u>> : u \in A} /\ ToAcquire(g)' = RR \cup {<<u>> : u \in AA}
        /\ ToGiveUp(g) = L \cup {<<u>> : u \in B} /\ ToGiveUp(g)' = LL \cup {<<u>> : u \in BB}
    BY <1>10 DEF ToAcquire, ToGiveUp
  <2>2. RR = R \ {<<t, s>>} /\ LL = L \ {<<t, s>>}
    <3>1. \A p \in (DOMAIN tasks) \X Slots : p # <<t, s>> =>
            Entering(p[1], p[2], g)' = Entering(p[1], p[2], g) /\ Leaving(p[1], p[2], g)' = Leaving(p[1], p[2], g)
      <4>1. ASSUME NEW p \in (DOMAIN tasks) \X Slots, p # <<t, s>> PROVE p[1] \in DOMAIN tasks /\ (p[1] # t \/ p[2] # s)
        BY <4>1
      <4> QED BY <4>1, <1>8, <1>9
    <3>2. ~Entering(<<t, s>>[1], <<t, s>>[2], g)' /\ ~Leaving(<<t, s>>[1], <<t, s>>[2], g)'
      BY <1>7
    <3> QED BY <3>1, <3>2
  <2>3. /\ Entering(t, s, g) => <<t, s>> \in R /\ AA = A \cup {t}
        /\ ~Entering(t, s, g) => <<t, s>> \notin R /\ AA = A
        /\ Leaving(t, s, g) => <<t, s>> \in L /\ BB = B \cup {t}
        /\ ~Leaving(t, s, g) => <<t, s>> \notin L /\ BB = B
    BY <1>4, <1>5, <1>6, <1>9, <1>10
  <2>4. t \notin A /\ t \notin B /\ \A u : <<u>> \notin R /\ <<u>> \notin L /\ <<u>> # <<t, s>>
    BY <1>4
  <2> HIDE DEF R, L, RR, LL, A, B, AA, BB
  <2> QED BY <2>1, <2>2, <2>3, <2>4
<1>12. WantedBy(g)' = WantedBy(g)
  BY <1>2 DEF WantedBy, Now
<1>13. Cardinality(ToAcquire(g)') = Cardinality(ToAcquire(g))
  <2>1. CASE Entering(t, s, g)
    <3>1. IsFiniteSet(ToAcquire(g))
      BY FiniteLeft
    <3> QED BY <1>11, <2>1, <3>1, Passed
  <2>2. CASE ~Entering(t, s, g)
    BY <1>11, <2>2
  <2> QED BY <2>1, <2>2
<1>14. Cardinality(ToGiveUp(g)') = Cardinality(ToGiveUp(g))
  <2>1. CASE Leaving(t, s, g)
    <3>1. IsFiniteSet(ToGiveUp(g))
      BY FiniteLeft
    <3> QED BY <1>11, <2>1, <3>1, Passed
  <2>2. CASE ~Leaving(t, s, g)
    BY <1>11, <2>2
  <2> QED BY <2>1, <2>2
<1> QED BY <1>12, <1>13, <1>14 DEF Due

\* In order, nobody has more to acquire than is wanted.
LEMMA OrderedDue ==
  ASSUME Typed, Sources, Shapes, Single, failures = 0, ~overlapped, NEW g
  PROVE  Due(g) >= Cardinality(ToGiveUp(g))
<1> DEFINE t == Len(snaps)
           Src(s) == s \in Slots \ tasks[t].slots /\ HasGlob(Now[s], g)
           cur == CHOOSE s : Src(s)
           f == [p \in ToAcquire(g) |-> IF p = <<t>> THEN cur ELSE p[2]]
<1>1. \A p \in ToAcquire(g) :
        \/ p = <<t>> /\ t \in DOMAIN tasks /\ Acquiring(t, g)
        \/ \E s \in Slots : p = <<t, s>> /\ Entering(t, s, g)
  BY DEF ToAcquire, Single
<1>2. ASSUME t \in DOMAIN tasks, Acquiring(t, g) PROVE Src(cur)
  <2>1. PICK s \in Slots : Source(t, s)
    BY <1>2 DEF Acquiring, Sources
  <2>2. Src(s)
    <3>1. tasks[t].want # None /\ g \in tasks[t].want.globs
      BY <1>2 DEF Acquiring, Shapes, Shape, Updating
    <3> QED BY <2>1, <3>1 DEF Source, HasGlob, Now
  <2> QED BY <2>2
<1>3. \A p \in ToAcquire(g) : f[p] \in WantedBy(g)
  <2>1. ASSUME NEW p \in ToAcquire(g), p = <<t>> PROVE f[p] \in WantedBy(g)
    <3>1. Src(cur)
      BY <1>1, <1>2, <2>1
    <3> QED BY <2>1, <3>1 DEF WantedBy, HasGlob
  <2>2. ASSUME NEW p \in ToAcquire(g), p # <<t>> PROVE f[p] \in WantedBy(g)
    <3>1. PICK s \in Slots : p = <<t, s>> /\ Entering(t, s, g)
      BY <1>1, <2>2
    <3> QED BY <2>2, <3>1 DEF Entering, WantedBy, HasGlob, Now
  <2> QED BY <2>1, <2>2
<1>4. ASSUME NEW p \in ToAcquire(g), NEW q \in ToAcquire(g), f[p] = f[q] PROVE p = q
  <2>1. ASSUME NEW p1 \in ToAcquire(g), NEW q1 \in ToAcquire(g), p1 = <<t>>, q1 # <<t>>, f[p1] = f[q1] PROVE FALSE
    <3>1. cur \notin tasks[t].slots
      BY <1>1, <1>2, <2>1
    <3>2. PICK s \in Slots : q1 = <<t, s>> /\ Entering(t, s, g)
      BY <1>1, <2>1
    <3> QED BY <2>1, <3>1, <3>2 DEF Entering
  <2>2. CASE p # <<t>> /\ q # <<t>>
    <3>1. f[p] = p[2] /\ f[q] = q[2]
      BY <2>2
    <3>2. PICK s \in Slots, r \in Slots : p = <<t, s>> /\ q = <<t, r>>
      BY <1>1, <2>2
    <3> QED BY <1>4, <3>1, <3>2
  <2> QED BY <1>4, <2>1, <2>2
<1>5. f \in Injection(ToAcquire(g), WantedBy(g))
  <2>1. f \in [ToAcquire(g) -> WantedBy(g)]
    BY <1>3
  <2> HIDE DEF f
  <2> QED BY <1>4, <2>1 DEF Injection, IsInjective
<1> HIDE DEF f
<1>6. Cardinality(ToAcquire(g)) <= Cardinality(WantedBy(g))
  BY <1>5, FiniteLeft, FS_Injection
<1> QED BY <1>6, FiniteLeft DEF Due

\* What is new in a snapshot is to be acquired, what has gone is to be released.
LEMMA AdoptedDue == ASSUME Typed, Adopted, NEW g PROVE Due(g)' = Due(g)
<1> DEFINE E == {s \in Slots : snaps'[Len(snaps) + 1][s] # Now[s] /\ HasGlob(snaps'[Len(snaps) + 1][s], g)}
           L == {s \in Slots : snaps'[Len(snaps) + 1][s] # Now[s] /\ HasGlob(Now[s], g)}
           W == {s \in Slots : HasGlob(Now[s], g)}
           WW == {s \in Slots : HasGlob(snaps'[Len(snaps) + 1][s], g)}
<1>1. WantedBy(g) = W /\ WantedBy(g)' = WW
  <2>1. Now' = snaps'[Len(snaps) + 1]
    BY Before DEF Now
  <2> QED BY <2>1 DEF WantedBy, HasGlob
<1>2. E \subseteq WW /\ L \subseteq W /\ WW \ E = W \ L
  OBVIOUS
<1>3. IsFiniteSet(Slots) /\ E \in SUBSET Slots /\ L \in SUBSET Slots /\ W \in SUBSET Slots /\ WW \in SUBSET Slots
  BY SlotsAssumption
<1>4. Cardinality(WW) - Cardinality(E) = Cardinality(W) - Cardinality(L)
  <2> HIDE DEF E, L, W, WW
  <2>1. IsFiniteSet(E) /\ IsFiniteSet(L) /\ IsFiniteSet(W) /\ IsFiniteSet(WW)
    BY <1>3, FS_Subset
  <2>2. WW \cap E = E /\ W \cap L = L
    BY <1>2
  <2>3. Cardinality(WW \ E) = Cardinality(WW) - Cardinality(WW \cap E)
    BY <2>1, FS_Difference
  <2>4. Cardinality(W \ L) = Cardinality(W) - Cardinality(W \cap L)
    BY <2>1, FS_Difference
  <2>5. /\ Cardinality(E) \in Nat /\ Cardinality(L) \in Nat
        /\ Cardinality(W) \in Nat /\ Cardinality(WW) \in Nat
    BY <2>1, FS_CardinalityType
  <2>6. Cardinality(WW) - Cardinality(E) = Cardinality(WW \ E) /\ Cardinality(W) - Cardinality(L) = Cardinality(W \ L)
    BY <2>2, <2>3, <2>4
  <2>7. Cardinality(WW \ E) = Cardinality(W \ L)
    BY <1>2
  <2> QED BY <2>6, <2>7
<1>5. ASSUME NEW n, NEW D \in SUBSET Slots
      PROVE  IsFiniteSet({<<n, s>> : s \in D}) /\ Cardinality({<<n, s>> : s \in D}) = Cardinality(D)
  <2> DEFINE Q == {<<n, s>> : s \in D}
             f == [s \in D |-> <<n, s>>]
  <2>1. f \in Surjection(D, Q)
    BY DEF Surjection
  <2>2. f \in Injection(D, Q)
    <3>1. f \in [D -> Q]
      OBVIOUS
    <3>2. \A x, y \in D : f[x] = f[y] => x = y
      OBVIOUS
    <3> HIDE DEF f, Q
    <3> QED BY <3>1, <3>2 DEF Injection, IsInjective
  <2>3. IsFiniteSet(D)
    BY <1>3, FS_Subset
  <2> HIDE DEF f, Q
  <2>4. IsFiniteSet(Q) /\ Cardinality(Q) = Cardinality(D)
    BY <2>1, <2>2, <2>3, FS_Surjection
  <2> QED BY <2>4 DEF Q
<1>6. /\ ToAcquire(g)' = ToAcquire(g) \cup {<<Len(snaps) + 1, s>> : s \in E}
      /\ ToGiveUp(g)' = ToGiveUp(g) \cup {<<Len(snaps) + 1, s>> : s \in L}
  <2>1. ASSUME NEW n, n = Len(snaps) + 1
        PROVE  /\ ToAcquire(g)' = ToAcquire(g) \cup {<<n, s>> : s \in E}
               /\ ToGiveUp(g)' = ToGiveUp(g) \cup {<<n, s>> : s \in L}
    <3>1. /\ DOMAIN tasks' = DOMAIN tasks \cup {n} /\ n \notin DOMAIN tasks
          /\ \A u \in DOMAIN tasks : tasks'[u] = tasks[u]
          /\ tasks'[n].pc = "visit" /\ tasks'[n].slots = Slots /\ n \in 2 .. Len(snaps')
      BY <2>1, Before DEF Adopted, AdoptedAs
    <3>2. snaps'[n - 1] = Now /\ n - 1 = Len(snaps)
      BY <2>1, Before
    <3>3. \A u \in DOMAIN tasks : u # n /\ u \in 2 .. Len(snaps) /\ u \in 1 .. Len(snaps) /\ u - 1 \in 1 .. Len(snaps)
      BY <3>1, WatcherTypes
    <3>4. \A u \in DOMAIN tasks : snaps'[u] = snaps[u] /\ snaps'[u - 1] = snaps[u - 1] /\ u \in 2 .. Len(snaps')
      BY <3>3, Before
    <3>5. \A u \in DOMAIN tasks : /\ Acquiring(u, g)' = Acquiring(u, g) /\ Releasing(u, g)' = Releasing(u, g)
                                  /\ \A s : /\ Entering(u, s, g)' = Entering(u, s, g)
                                            /\ Leaving(u, s, g)' = Leaving(u, s, g)
      BY <3>1, <3>3, <3>4 DEF Acquiring, Releasing, Entering, Leaving, Changes
    <3>6. ~Acquiring(n, g)' /\ ~Releasing(n, g)'
      BY <3>1 DEF Acquiring, Releasing, Updating
    <3>7. \A s \in Slots : (Entering(n, s, g)' <=> s \in E) /\ (Leaving(n, s, g)' <=> s \in L)
      BY <2>1, <3>1, <3>2 DEF Entering, Leaving, Changes
    <3> DEFINE A == {u \in DOMAIN tasks : Acquiring(u, g)}
               B == {u \in DOMAIN tasks : Releasing(u, g)}
               R == {p \in (DOMAIN tasks) \X Slots : Entering(p[1], p[2], g)}
               Q == {p \in (DOMAIN tasks) \X Slots : Leaving(p[1], p[2], g)}
    <3>8. {u \in DOMAIN tasks' : Acquiring(u, g)'} = A /\ {u \in DOMAIN tasks' : Releasing(u, g)'} = B
      BY <3>1, <3>5, <3>6
    <3>9. {p \in (DOMAIN tasks') \X Slots : Entering(p[1], p[2], g)'} = R \cup {<<n, s>> : s \in E}
      <4>1. ASSUME NEW p \in (DOMAIN tasks) \X Slots PROVE p[1] \in DOMAIN tasks /\ p[1] # n
        BY <3>1
      <4>2. \A p \in (DOMAIN tasks) \X Slots : Entering(p[1], p[2], g)' <=> p \in R
        BY <3>5, <4>1
      <4>3. ASSUME NEW p \in (DOMAIN tasks') \X Slots, p \notin (DOMAIN tasks) \X Slots
            PROVE  p = <<n, p[2]>> /\ p[2] \in Slots /\ p[1] = n
        BY <3>1, <4>3
      <4>4. \A s \in Slots : <<n, s>> \in (DOMAIN tasks') \X Slots
        BY <3>1
      <4>5. (DOMAIN tasks) \X Slots \subseteq (DOMAIN tasks') \X Slots
        BY <3>1
      <4>6. \A p \in (DOMAIN tasks') \X Slots : Entering(p[1], p[2], g)' <=> p \in R \cup {<<n, s>> : s \in E}
        <5>1. ASSUME NEW p \in (DOMAIN tasks') \X Slots, p \in (DOMAIN tasks) \X Slots
              PROVE  p \notin {<<n, s>> : s \in E}
          BY <4>1, <5>1
        <5>2. ASSUME NEW p \in (DOMAIN tasks') \X Slots, p \notin (DOMAIN tasks) \X Slots
              PROVE  Entering(p[1], p[2], g)' <=> p \in {<<n, s>> : s \in E}
          <6>1. p = <<n, p[2]>> /\ p[2] \in Slots /\ p[1] = n
            BY <4>3, <5>2
          <6> HIDE DEF E
          <6>2. p \in {<<n, s>> : s \in E} <=> p[2] \in E
            BY <6>1
          <6> QED BY <3>7, <6>1, <6>2
        <5>3. \A p : p \notin (DOMAIN tasks) \X Slots => p \notin R
          OBVIOUS
        <5> HIDE DEF E, R
        <5> QED BY <4>2, <5>1, <5>2, <5>3
      <4>7. R \cup {<<n, s>> : s \in E} \subseteq (DOMAIN tasks') \X Slots
        BY <4>4, <4>5
      <4> HIDE DEF E, R
      <4> QED BY <4>6, <4>7
    <3>10. {p \in (DOMAIN tasks') \X Slots : Leaving(p[1], p[2], g)'} = Q \cup {<<n, s>> : s \in L}
      <4>1. ASSUME NEW p \in (DOMAIN tasks) \X Slots PROVE p[1] \in DOMAIN tasks /\ p[1] # n
        BY <3>1
      <4>2. \A p \in (DOMAIN tasks) \X Slots : Leaving(p[1], p[2], g)' <=> p \in Q
        BY <3>5, <4>1
      <4>3. ASSUME NEW p \in (DOMAIN tasks') \X Slots, p \notin (DOMAIN tasks) \X Slots
            PROVE  p = <<n, p[2]>> /\ p[2] \in Slots /\ p[1] = n
        BY <3>1, <4>3
      <4>4. \A s \in Slots : <<n, s>> \in (DOMAIN tasks') \X Slots
        BY <3>1
      <4>5. (DOMAIN tasks) \X Slots \subseteq (DOMAIN tasks') \X Slots
        BY <3>1
      <4>6. \A p \in (DOMAIN tasks') \X Slots : Leaving(p[1], p[2], g)' <=> p \in Q \cup {<<n, s>> : s \in L}
        <5>1. ASSUME NEW p \in (DOMAIN tasks') \X Slots, p \in (DOMAIN tasks) \X Slots
              PROVE  p \notin {<<n, s>> : s \in L}
          BY <4>1, <5>1
        <5>2. ASSUME NEW p \in (DOMAIN tasks') \X Slots, p \notin (DOMAIN tasks) \X Slots
              PROVE  Leaving(p[1], p[2], g)' <=> p \in {<<n, s>> : s \in L}
          <6>1. p = <<n, p[2]>> /\ p[2] \in Slots /\ p[1] = n
            BY <4>3, <5>2
          <6> HIDE DEF L
          <6>2. p \in {<<n, s>> : s \in L} <=> p[2] \in L
            BY <6>1
          <6> QED BY <3>7, <6>1, <6>2
        <5>3. \A p : p \notin (DOMAIN tasks) \X Slots => p \notin Q
          OBVIOUS
        <5> HIDE DEF L, Q
        <5> QED BY <4>2, <5>1, <5>2, <5>3
      <4>7. Q \cup {<<n, s>> : s \in L} \subseteq (DOMAIN tasks') \X Slots
        BY <4>4, <4>5
      <4> HIDE DEF L, Q
      <4> QED BY <4>6, <4>7
    <3>11. ToAcquire(g) = R \cup {<<u>> : u \in A} /\ ToGiveUp(g) = Q \cup {<<u>> : u \in B}
      BY DEF ToAcquire, ToGiveUp
    <3>12. /\ ToAcquire(g)' = {p \in (DOMAIN tasks') \X Slots : Entering(p[1], p[2], g)'} \cup {<<u>> : u \in A}
           /\ ToGiveUp(g)' = {p \in (DOMAIN tasks') \X Slots : Leaving(p[1], p[2], g)'} \cup {<<u>> : u \in B}
      BY <3>8 DEF ToAcquire, ToGiveUp
    <3> HIDE DEF E, L, A, B, R, Q
    <3> QED BY <3>9, <3>10, <3>11, <3>12
  <2> QED BY <2>1
<1>7. ASSUME NEW n, n = Len(snaps) + 1, NEW D
      PROVE  ToAcquire(g) \cap {<<n, s>> : s \in D} = {} /\ ToGiveUp(g) \cap {<<n, s>> : s \in D} = {}
  <2>1. n \notin DOMAIN tasks
    BY <1>7 DEF Adopted, AdoptedAs
  <2> QED BY <2>1 DEF ToAcquire, ToGiveUp
<1> HIDE DEF E, L, W, WW
<1>8. ASSUME NEW S, NEW Q, NEW D, IsFiniteSet(S), IsFiniteSet(Q), S \cap Q = {}, Cardinality(Q) = Cardinality(D)
      PROVE  Cardinality(S \cup Q) = Cardinality(S) + Cardinality(D)
  <2>1. Cardinality(S \cup Q) = Cardinality(S) + Cardinality(Q) - Cardinality(S \cap Q)
    BY <1>8, FS_Union
  <2>2. Cardinality(S \cap Q) = 0
    BY <1>8, FS_EmptySet
  <2>3. Cardinality(S) \in Nat /\ Cardinality(Q) \in Nat
    BY <1>8, FS_CardinalityType
  <2>4. Cardinality(S \cup Q) = Cardinality(S) + Cardinality(Q)
    BY <2>1, <2>2, <2>3
  <2> QED BY <2>4, <1>8
<1> DEFINE N(D) == {<<Len(snaps) + 1, s>> : s \in D}
<1>9. Cardinality(ToAcquire(g)') = Cardinality(ToAcquire(g)) + Cardinality(E)
  <2>1. IsFiniteSet(N(E)) /\ Cardinality(N(E)) = Cardinality(E)
    BY <1>3, <1>5
  <2>2. ToAcquire(g) \cap N(E) = {}
    BY <1>7
  <2>3. IsFiniteSet(ToAcquire(g))
    BY FiniteLeft
  <2>4. ToAcquire(g)' = ToAcquire(g) \cup N(E)
    BY <1>6
  <2> HIDE DEF N
  <2>5. Cardinality(ToAcquire(g) \cup N(E)) = Cardinality(ToAcquire(g)) + Cardinality(E)
    BY <1>8, <2>1, <2>2, <2>3
  <2> QED BY <2>4, <2>5
<1>10. Cardinality(ToGiveUp(g)') = Cardinality(ToGiveUp(g)) + Cardinality(L)
  <2>1. IsFiniteSet(N(L)) /\ Cardinality(N(L)) = Cardinality(L)
    BY <1>3, <1>5
  <2>2. ToGiveUp(g) \cap N(L) = {}
    BY <1>7
  <2>3. IsFiniteSet(ToGiveUp(g))
    BY FiniteLeft
  <2>4. ToGiveUp(g)' = ToGiveUp(g) \cup N(L)
    BY <1>6
  <2> HIDE DEF N
  <2>5. Cardinality(ToGiveUp(g) \cup N(L)) = Cardinality(ToGiveUp(g)) + Cardinality(L)
    BY <1>8, <2>1, <2>2, <2>3
  <2> QED BY <2>4, <2>5
<1>11. /\ Cardinality(E) \in Nat /\ Cardinality(L) \in Nat /\ Cardinality(W) \in Nat /\ Cardinality(WW) \in Nat
       /\ Cardinality(ToAcquire(g)) \in Nat /\ Cardinality(ToGiveUp(g)) \in Nat
  BY <1>3, FiniteLeft, FS_Subset, FS_CardinalityType
<1> QED BY <1>1, <1>4, <1>9, <1>10, <1>11 DEF Due

\* Failures and overlaps do not go away.
LEMMA OnlyMore ==
  ASSUME Typed, Shapes, History, Answered, Named, [Next]_vars
  PROVE  failures \in Nat /\ (failures' = 0 => failures = 0) /\ (~overlapped' => ~overlapped)
<1>1. failures \in Nat
  BY BoundsAssumption DEF Typed
<1>2. failures' \in {failures, failures + 1} /\ (overlapped => overlapped')
  <2>1. CASE UNCHANGED vars
    BY <2>1 DEF vars
  <2>2. CASE UpdateSnapshot
    BY <2>2 DEF UpdateSnapshot
  <2>3. ASSUME NEW t \in DOMAIN tasks, EndTask(t) PROVE failures' \in {failures, failures + 1} /\ overlapped' = overlapped
    BY <2>3 DEF EndTask
  <2>4. ASSUME NEW t \in DOMAIN tasks, Steps(t) PROVE failures' \in {failures, failures + 1} /\ overlapped' = overlapped
    BY <2>4, StepsMove
  <2> QED BY <2>1, <2>2, <2>3, <2>4 DEF Next, TaskStep, Steps
<1> QED BY <1>1, <1>2

\* One glob less to acquire or to give up.
LEMMA OneLess ==
  ASSUME NEW S, IsFiniteSet(S), NEW x \in S
  PROVE  Cardinality(S \ {x}) = Cardinality(S) - 1 /\ Cardinality(S) \in Nat /\ Cardinality(S) > 0
<1>1. Cardinality(S \ {x}) = Cardinality(S) - 1 /\ IsFiniteSet(S \ {x})
  BY FS_RemoveElement
<1>2. Cardinality(S) \in Nat /\ Cardinality(S \ {x}) \in Nat
  BY <1>1, FS_CardinalityType
<1> QED BY <1>1, <1>2

\* Acquiring a glob counts it.
LEMMA AcquireCounts ==
  ASSUME Typed, Shapes, Sources, History, Answered, Named, NEW t \in DOMAIN tasks, Acquire(t), NEW g \in Globs
  PROVE  \E d \in {0, 1} : entries'[g].count = entries[g].count + d /\ Due(g)' = Due(g) + d
<1> DEFINE k == tasks[t]
           r == tasks'[t]
<1>1. PICK h \in k.todo :
        /\ h \in Globs
        /\ entries' = [entries EXCEPT ![h] =
             [count |-> entries[h].count + 1,
              id |-> IF entries[h].count = 0 THEN GlobID(k.want, h) ELSE entries[h].id]]
        /\ \/ r.pc = "acquire" /\ r.todo = k.todo \ {h}
           \/ r.pc = "watch" /\ k.todo = {h}
           \/ r.pc = "clear" /\ k.todo = {h}
  BY AcquireDoes
<1>2. Moved(t) /\ snaps' = snaps /\ r.slots = k.slots /\ k.pc = "acquire" /\ r.old = k.old
  <2>1. Moved(t) /\ k.pc = "acquire" /\ SameUpdate(k, r)
    BY AcquireDoes
  <2> QED BY <2>1 DEF SameUpdate, Acquire
<1>3. entries[g].count \in Nat /\ entries \in [Globs -> [count : Nat, id : IDs \cup {<<>>}]]
  BY DEF Typed
<1>4. /\ Cardinality(ToAcquire(g)) \in Nat /\ Cardinality(ToGiveUp(g)) \in Nat /\ Cardinality(WantedBy(g)) \in Nat
      /\ IsFiniteSet(ToAcquire(g)) /\ Due(g) \in Int
  BY FiniteLeft
<1>5. Releasing(t, g)' = Releasing(t, g)
  BY <1>1, <1>2 DEF Releasing, Updating
<1>6. ToGiveUp(g)' = ToGiveUp(g) /\ WantedBy(g)' = WantedBy(g)
  BY <1>2, <1>5, LeftSame
<1>7. CASE g = h
  <2>1. Acquiring(t, g) /\ ~Acquiring(t, g)'
    BY <1>1, <1>2, <1>7 DEF Acquiring
  <2>2. <<t>> \in ToAcquire(g) /\ ToAcquire(g)' = ToAcquire(g) \ {<<t>>}
    BY <1>2, <2>1, LeftSame
  <2>3. Cardinality(ToAcquire(g)') = Cardinality(ToAcquire(g)) - 1
    BY <1>4, <2>2, OneLess
  <2>4. entries'[g].count = entries[g].count + 1
    BY <1>1, <1>3, <1>7
  <2>5. Due(g)' = Due(g) + 1
    BY <1>4, <1>6, <2>3 DEF Due
  <2> QED BY <2>4, <2>5
<1>8. CASE g # h
  <2>1. Acquiring(t, g)' = Acquiring(t, g)
    BY <1>1, <1>2, <1>8 DEF Acquiring
  <2>2. ToAcquire(g)' = ToAcquire(g)
    BY <1>2, <2>1, LeftSame
  <2>3. entries'[g].count = entries[g].count
    BY <1>1, <1>3, <1>8
  <2>4. Due(g)' = Due(g)
    BY <1>6, <2>2 DEF Due
  <2> QED BY <1>3, <1>4, <2>3, <2>4
<1> QED BY <1>7, <1>8

\* Registering, clearing and unregistering change nothing that is due.
LEMMA OthersCount ==
  ASSUME Typed, Shapes, History, Answered, Named, failures = 0, NEW t \in DOMAIN tasks,
         WatchFiles(t) \/ ClearPending(t) \/ UnwatchFiles(t), NEW g
  PROVE  Due(g)' = Due(g)
<1>1. Moved(t) /\ snaps' = snaps /\ tasks'[t].slots = tasks[t].slots
  <2>1. Steps(t) /\ ~VisitSlot(t)
    BY DEF Steps, VisitSlot, WatchFiles, ClearPending, UnwatchFiles
  <2> QED BY <2>1, StepsMove, StepsContinue
<1>2. Acquiring(t, g)' = Acquiring(t, g) /\ Releasing(t, g)' = Releasing(t, g)
  <2>1. CASE WatchFiles(t)
    <3>1. /\ tasks[t].pc = "watch" /\ tasks'[t].pc \in {"watch", "rollback", "clear"}
          /\ SameUpdate(tasks[t], tasks'[t])
      BY <2>1, WatchDoes
    <3> QED BY <3>1 DEF Acquiring, Releasing, Updating, SameUpdate
  <2>2. CASE ClearPending(t)
    <3>1. tasks[t].pc = "clear" /\ Turns(t)
      BY <2>2, ClearDoes
    <3>2. CASE tasks'[t].pc = "visit" /\ \A h : ~HasGlob(tasks[t].old, h)
      BY <3>1, <3>2 DEF Acquiring, Releasing, Updating
    <3>3. CASE tasks'[t].pc = "release" /\ tasks[t].old # None /\ tasks'[t].todo = tasks[t].old.globs
      BY <3>1, <3>3 DEF Acquiring, Releasing, Updating, HasGlob
    <3> QED BY <3>1, <3>2, <3>3 DEF Turns
  <2>3. CASE UnwatchFiles(t)
    <3>1. tasks[t].pc = "unwatch" /\ tasks'[t].pc \in {"visit", "unwatch"}
      BY <2>3, UnwatchDoes
    <3> QED BY <3>1 DEF Acquiring, Releasing, Updating
  <2> QED BY <2>1, <2>2, <2>3
<1> QED BY <1>1, <1>2, LeftSame DEF Due

\* Releasing a glob uncounts it; never below what is due, and in order exactly.
LEMMA ReleaseCounts ==
  ASSUME Typed, Shapes, Sources, Single, History, Answered, Named, failures = 0, NEW t \in DOMAIN tasks, ReleaseOld(t),
         NEW g \in Globs, entries[g].count >= Due(g), ~overlapped => entries[g].count = Due(g)
  PROVE  entries'[g].count >= Due(g)' /\ (~overlapped => entries'[g].count = Due(g)')
<1> DEFINE k == tasks[t]
           r == tasks'[t]
<1>1. PICK h \in k.todo :
        /\ h \in Globs /\ entries' = Released(h)
        /\ \/ r.pc = "release" /\ r.todo = k.todo \ {h}
           \/ r.pc \in {"visit", "unwatch"} /\ k.todo = {h}
  BY ReleaseDoes
<1>2. Moved(t) /\ snaps' = snaps /\ r.slots = k.slots /\ k.pc = "release"
  BY ReleaseDoes DEF ReleaseOld
<1>3. entries[g].count \in Nat /\ entries \in [Globs -> [count : Nat, id : IDs \cup {<<>>}]]
  BY DEF Typed
<1>4. /\ Cardinality(ToAcquire(g)) \in Nat /\ Cardinality(ToGiveUp(g)) \in Nat /\ Cardinality(WantedBy(g)) \in Nat
      /\ IsFiniteSet(ToGiveUp(g)) /\ Due(g) \in Int
  BY FiniteLeft
<1>5. Acquiring(t, g)' = Acquiring(t, g)
  BY <1>1, <1>2 DEF Acquiring
<1>6. ToAcquire(g)' = ToAcquire(g) /\ WantedBy(g)' = WantedBy(g)
  BY <1>2, <1>5, LeftSame
<1>7. CASE g = h
  <2>1. Releasing(t, g) /\ ~Releasing(t, g)'
    BY <1>1, <1>2, <1>7 DEF Releasing, Updating
  <2>2. <<t>> \in ToGiveUp(g) /\ ToGiveUp(g)' = ToGiveUp(g) \ {<<t>>}
    BY <1>2, <2>1, LeftSame
  <2>3. Cardinality(ToGiveUp(g)') = Cardinality(ToGiveUp(g)) - 1 /\ Cardinality(ToGiveUp(g)) > 0
    BY <1>4, <2>2, OneLess
  <2>4. entries'[g].count = IF entries[g].count <= 1 THEN 0 ELSE entries[g].count - 1
    BY <1>1, <1>3, <1>7 DEF Released, Absent
  <2>5. Due(g)' = Due(g) - 1
    BY <1>4, <1>6, <2>3 DEF Due
  <2>6. ~overlapped => Due(g) >= 1
    <3>1. ~overlapped => Due(g) >= Cardinality(ToGiveUp(g))
      BY OrderedDue
    <3> QED BY <1>4, <2>3, <3>1
  <2> HIDE DEF k, r
  <2> QED BY <1>3, <1>4, <2>4, <2>5, <2>6
<1>8. CASE g # h
  <2>1. Releasing(t, g)' = Releasing(t, g)
    BY <1>1, <1>2, <1>8 DEF Releasing, Updating
  <2>2. ToGiveUp(g)' = ToGiveUp(g)
    BY <1>2, <2>1, LeftSame
  <2>3. entries'[g].count = entries[g].count
    BY <1>1, <1>3, <1>8 DEF Released
  <2> QED BY <1>6, <2>2, <2>3 DEF Due
<1> QED BY <1>7, <1>8

\* A task that has ended had nothing left.
LEMMA EndedDue ==
  ASSUME Typed, NEW t \in DOMAIN tasks, EndTask(t), NEW g
  PROVE  Due(g)' = Due(g)
<1>1. /\ DOMAIN tasks' = DOMAIN tasks \ {t} /\ tasks[t].pc = "visit" /\ tasks[t].slots = {}
      /\ \A u \in DOMAIN tasks : u # t => tasks'[u] = tasks[u]
  BY EndDoes
<1>2. snaps' = snaps
  BY DEF EndTask
<1>3. ~Acquiring(t, g) /\ ~Releasing(t, g) /\ \A s : ~Entering(t, s, g) /\ ~Leaving(t, s, g)
  BY <1>1 DEF Acquiring, Releasing, Entering, Leaving, Updating
<1>4. \A u \in DOMAIN tasks' :
        /\ Acquiring(u, g)' = Acquiring(u, g) /\ Releasing(u, g)' = Releasing(u, g)
        /\ \A s : Entering(u, s, g)' = Entering(u, s, g) /\ Leaving(u, s, g)' = Leaving(u, s, g)
  BY <1>1, <1>2 DEF Acquiring, Releasing, Entering, Leaving, Changes
<1>5. /\ {u \in DOMAIN tasks' : Acquiring(u, g)'} = {u \in DOMAIN tasks : Acquiring(u, g)}
      /\ {u \in DOMAIN tasks' : Releasing(u, g)'} = {u \in DOMAIN tasks : Releasing(u, g)}
  BY <1>1, <1>3, <1>4
<1>6. ASSUME NEW p \in (DOMAIN tasks) \X Slots, Entering(p[1], p[2], g) \/ Leaving(p[1], p[2], g)
      PROVE  p \in (DOMAIN tasks') \X Slots
  <2>1. p[1] # t
    BY <1>3, <1>6
  <2> QED BY <1>1, <2>1
<1>7. ASSUME NEW p \in (DOMAIN tasks') \X Slots
      PROVE  p[1] \in DOMAIN tasks' /\ p \in (DOMAIN tasks) \X Slots
  BY <1>1
<1>8. /\ {p \in (DOMAIN tasks') \X Slots : Entering(p[1], p[2], g)'}
           = {p \in (DOMAIN tasks) \X Slots : Entering(p[1], p[2], g)}
      /\ {p \in (DOMAIN tasks') \X Slots : Leaving(p[1], p[2], g)'}
           = {p \in (DOMAIN tasks) \X Slots : Leaving(p[1], p[2], g)}
  BY <1>4, <1>6, <1>7
<1>9. ToAcquire(g)' = ToAcquire(g) /\ ToGiveUp(g)' = ToGiveUp(g)
  BY <1>5, <1>8 DEF ToAcquire, ToGiveUp
<1>10. WantedBy(g)' = WantedBy(g)
  BY <1>2 DEF WantedBy, Now
<1> QED BY <1>9, <1>10 DEF Due

\* Every step keeps the counts at what is due, or above where updates overlap.
LEMMA CountedKept ==
  ASSUME Typed, Shapes, Sources, History, Answered, Single, Named, Counted, [Next]_vars
  PROVE  Counted'
<1> SUFFICES ASSUME failures' = 0, NEW g \in Globs
             PROVE  entries'[g].count >= Due(g)' /\ (~overlapped' => entries'[g].count = Due(g)')
  BY DEF Counted
<1>1. failures = 0 /\ (~overlapped' => ~overlapped)
  BY OnlyMore
<1>2. entries[g].count >= Due(g) /\ (~overlapped => entries[g].count = Due(g))
  BY <1>1 DEF Counted
<1>3. ASSUME entries'[g].count = entries[g].count, Due(g)' = Due(g)
      PROVE  entries'[g].count >= Due(g)' /\ (~overlapped' => entries'[g].count = Due(g)')
  BY <1>1, <1>2, <1>3
<1>4. CASE UNCHANGED vars
  <2>1. Due(g)' = Due(g) /\ entries' = entries
    BY <1>4 DEF vars, registry, Due, ToAcquire, ToGiveUp, WantedBy, Now, Entering, Leaving, Acquiring, Releasing, Changes
  <2> QED BY <1>3, <2>1
<1>5. CASE UpdateSnapshot
  <2>1. Due(g)' = Due(g)
    BY <1>5, UpdateDoes, AdoptedDue
  <2> QED BY <1>3, <1>5, <2>1 DEF UpdateSnapshot, registry
<1>6. ASSUME NEW t \in DOMAIN tasks, TaskStep(t)
      PROVE  entries'[g].count >= Due(g)' /\ (~overlapped' => entries'[g].count = Due(g)')
  <2>1. CASE VisitSlot(t)
    <3>1. Due(g)' = Due(g)
      BY <1>1, <2>1, VisitPasses
    <3> QED BY <1>3, <2>1, <3>1 DEF VisitSlot, registry
  <2>2. CASE EndTask(t)
    <3>1. Due(g)' = Due(g)
      BY <2>2, EndedDue
    <3> QED BY <1>3, <2>2, <3>1 DEF EndTask, registry
  <2>3. CASE Acquire(t)
    <3>1. PICK d \in {0, 1} : entries'[g].count = entries[g].count + d /\ Due(g)' = Due(g) + d
      BY <2>3, AcquireCounts
    <3>2. Due(g) \in Int /\ entries[g].count \in Nat
      BY FiniteLeft DEF Typed
    <3> QED BY <1>1, <1>2, <3>1, <3>2
  <2>4. CASE WatchFiles(t) \/ ClearPending(t) \/ UnwatchFiles(t)
    <3>1. Due(g)' = Due(g)
      BY <1>1, <2>4, OthersCount
    <3>2. entries' = entries
      BY <2>4 DEF WatchFiles, ClearPending, UnwatchFiles, registry
    <3> QED BY <1>3, <3>1, <3>2
  <2>5. CASE Rollback(t) \/ MarkPending(t)
    <3>1. tasks[t].failed
      BY <2>5, RollbackDoes, MarkDoes
    <3> QED BY <1>1, <3>1 DEF Answered
  <2>6. CASE ReleaseOld(t)
    <3>1. entries'[g].count >= Due(g)' /\ (~overlapped => entries'[g].count = Due(g)')
      BY <1>1, <1>2, <2>6, ReleaseCounts
    <3> QED BY <1>1, <3>1
  <2> QED BY <1>6, <2>1, <2>2, <2>3, <2>4, <2>5, <2>6 DEF TaskStep
<1> QED BY <1>4, <1>5, <1>6 DEF Next

-----------------------------------------------------------------------------
(* Ids name globs of watchers.                                                  *)

\* Watchers are not forgotten.
LEMMA UsedGrows ==
  ASSUME Typed, Shapes, History, Answered, Named, [Next]_vars
  PROVE  Used \subseteq Used' /\ (~UpdateSnapshot => Used' = Used /\ snaps' = snaps /\ lastID' = lastID)
<1>1. CASE UNCHANGED vars
  BY <1>1 DEF vars, Used
<1>2. CASE UpdateSnapshot
  BY <1>2, UpdateDoes, NewWatchers
<1>3. ASSUME NEW t \in DOMAIN tasks, EndTask(t) PROVE snaps' = snaps /\ lastID' = lastID
  BY <1>3 DEF EndTask
<1>4. ASSUME NEW t \in DOMAIN tasks, Steps(t) PROVE snaps' = snaps /\ lastID' = lastID
  BY <1>4, StepsMove
<1>5. snaps' = snaps => Used' = Used
  BY DEF Used
<1> QED BY <1>1, <1>2, <1>3, <1>4, <1>5 DEF Next, TaskStep, Steps, vars

\* What an entry is after a step.
LEMMA EntriesAre ==
  ASSUME Typed, Shapes, Sources, History, Answered, Named, [Next]_vars, NEW g \in Globs, entries'[g] # entries[g]
  PROVE  \E t \in DOMAIN tasks :
           LET k == tasks[t] IN
           /\ g \in k.todo
           /\ \/ /\ Acquire(t) /\ g \in k.want.globs
                 /\ entries'[g].count = entries[g].count + 1
                 /\ entries[g].count = 0 => entries'[g].id = GlobID(k.want, g)
                 /\ entries[g].count # 0 => entries'[g].id = entries[g].id
              \/ /\ Rollback(t) \/ (ReleaseOld(t) /\ g \in k.old.globs)
                 /\ \/ entries[g].count <= 1 /\ entries'[g] = Absent
                    \/ /\ entries[g].count > 1 /\ entries'[g].count = entries[g].count - 1
                       /\ entries'[g].id = entries[g].id
<1>1. entries \in [Globs -> [count : Nat, id : IDs \cup {<<>>}]] /\ entries[g].count \in Nat
  BY DEF Typed
<1>2. PICK t \in DOMAIN tasks : Acquire(t) \/ Rollback(t) \/ ReleaseOld(t)
  BY DEF Next, vars, TaskStep, UpdateSnapshot, VisitSlot, EndTask, WatchFiles, MarkPending, ClearPending, UnwatchFiles,
         registry
<1>3. CASE Acquire(t)
  <2>1. PICK h \in tasks[t].todo : entries' = [entries EXCEPT ![h] =
                       [count |-> entries[h].count + 1,
                        id |-> IF entries[h].count = 0 THEN GlobID(tasks[t].want, h) ELSE entries[h].id]]
    BY <1>3, AcquireDoes
  <2>2. tasks[t].todo \subseteq tasks[t].want.globs
    BY <1>3 DEF Acquire, Shapes, Shape
  <2> QED BY <1>1, <1>3, <2>1, <2>2
<1>4. CASE Rollback(t) \/ ReleaseOld(t)
  <2>1. PICK h \in tasks[t].todo : entries' = Released(h)
    BY <1>4, RollbackDoes, ReleaseDoes
  <2>2. ReleaseOld(t) => tasks[t].todo \subseteq tasks[t].old.globs
    BY DEF ReleaseOld, Shapes, Shape
  <2>3. g = h
    BY <1>1, <2>1 DEF Released
  <2> QED BY <1>1, <1>4, <2>1, <2>2, <2>3 DEF Released
<1> QED BY <1>2, <1>3, <1>4

\* What has newly to be unregistered has been counted to the end.
LEMMA GoneAre ==
  ASSUME Typed, Shapes, History, Answered, Named, [Next]_vars,
         NEW t \in DOMAIN tasks', NEW c \in tasks'[t].gone, t \in DOMAIN tasks => c \notin tasks[t].gone
  PROVE  /\ t \in DOMAIN tasks /\ ReleaseOld(t)
         /\ \E g \in tasks[t].todo :
              /\ g \in Globs /\ g \in tasks[t].old.globs /\ entries[g].count = 1 /\ entries[g].id = c
              /\ entries'[g] = Absent
<1>1. ~UNCHANGED vars
  BY DEF vars
<1>2. ~UpdateSnapshot
  BY UpdateDoes DEF Adopted, AdoptedAs
<1>3. ASSUME NEW u \in DOMAIN tasks, EndTask(u) PROVE FALSE
  BY <1>3, EndDoes
<1>4. PICK u \in DOMAIN tasks : Steps(u)
  BY <1>1, <1>2, <1>3 DEF Next, TaskStep, Steps
<1>5. t = u /\ t \in DOMAIN tasks
  BY <1>4, StepsMove DEF Moved
<1>6. ReleaseOld(t)
  <2>1. VisitSlot(t) => tasks'[t].gone = {}
    BY <1>5, VisitDoes
  <2>2. Acquire(t) => tasks'[t].gone = {}
    BY <1>5, AcquireDoes
  <2>3. WatchFiles(t) => tasks'[t].gone = {}
    BY <1>5, WatchDoes
  <2>4. Rollback(t) => tasks'[t].gone = {}
    BY <1>5, RollbackDoes
  <2>5. MarkPending(t) \/ ClearPending(t) => tasks'[t].gone = {}
    BY <1>5, MarkDoes, ClearDoes DEF Turns
  <2>6. UnwatchFiles(t) => tasks'[t].gone \subseteq tasks[t].gone
    BY <1>5, UnwatchDoes
  <2> QED BY <1>4, <1>5, <2>1, <2>2, <2>3, <2>4, <2>5, <2>6 DEF Steps
<1>7. PICK g \in tasks[t].todo :
        /\ g \in Globs /\ g \in tasks[t].old.globs /\ entries' = Released(g)
        /\ tasks'[t].gone = IF entries[g].count = 1 THEN tasks[t].gone \cup {entries[g].id} ELSE tasks[t].gone
  BY <1>5, <1>6, ReleaseDoes
<1>8. entries[g].count = 1 /\ entries[g].id = c
  BY <1>5, <1>7
<1>9. entries'[g] = Absent
  BY <1>7, <1>8 DEF Released, Typed
<1> QED BY <1>5, <1>6, <1>7, <1>8, <1>9

\* What the client has after a step.
LEMMA ClientAre ==
  ASSUME Typed, Shapes, Sources, History, Answered, Named, [Next]_vars, client' # client
  PROVE  \E t \in DOMAIN tasks :
           LET k == tasks[t] IN
           \/ /\ WatchFiles(t) /\ k.want \in Used /\ k.want \in Watcher
              /\ \E g \in k.todo : /\ g \in Globs /\ g \in k.want.globs /\ GlobID(k.want, g) \in IDs
                                   /\ client' = With(client, GlobID(k.want, g), g)
           \/ UnwatchFiles(t) /\ \E c \in k.gone : client' = Without(client, c)
<1>1. PICK t \in DOMAIN tasks : WatchFiles(t) \/ UnwatchFiles(t)
  BY DEF Next, vars, TaskStep, UpdateSnapshot, VisitSlot, EndTask, Acquire, Rollback, MarkPending, ClearPending, ReleaseOld
<1>2. CASE WatchFiles(t)
  <2>1. tasks[t].pc = "watch" /\ tasks[t].todo \subseteq tasks[t].fresh /\ tasks[t].fresh \subseteq tasks[t].want.globs
    BY <1>2, WatchDoes
  <2>2. PICK g \in tasks[t].todo : g \in Globs /\ client' = With(client, GlobID(tasks[t].want, g), g)
    BY <1>2, WatchDoes
  <2>3. tasks[t].want \in Used /\ tasks[t].want \in Watcher
    BY <2>1, UsedWant DEF Updating
  <2>4. g \in tasks[t].want.globs /\ GlobID(tasks[t].want, g) \in IDs
    BY <2>1, <2>3, IdIs
  <2> QED BY <1>2, <2>2, <2>3, <2>4
<1>3. CASE UnwatchFiles(t)
  BY <1>3, UnwatchDoes
<1> QED BY <1>1, <1>2, <1>3

\* Every step counts, unregisters and registers under ids of watchers only.
LEMMA NamedKept ==
  ASSUME Typed, Shapes, Sources, History, Answered, Named, [Next]_vars
  PROVE  Named'
<1> DEFINE NamedNow(c, g) == \E w \in Used' : g \in w.globs /\ c = GlobID(w, g)
<1>1. \A c, g : Names(c, g) => NamedNow(c, g)
  BY UsedGrows DEF Names
<1>2. ASSUME NEW g \in Globs, entries'[g].count > 0 PROVE NamedNow(entries'[g].id, g)
  <2>1. CASE entries'[g] = entries[g]
    BY <1>1, <1>2, <2>1 DEF Named
  <2>2. CASE entries'[g] # entries[g]
    <3>1. entries[g].count \in Nat
      BY DEF Typed
    <3>2. CASE entries[g].count > 0 /\ entries'[g].id = entries[g].id
      BY <1>1, <3>2 DEF Named
    <3>3. ASSUME NEW t \in DOMAIN tasks, Acquire(t), g \in tasks[t].want.globs, entries'[g].id = GlobID(tasks[t].want, g)
          PROVE  Names(entries'[g].id, g)
      <4>1. tasks[t].want \in Used
        BY <3>3, UsedWant DEF Acquire, Updating
      <4> QED BY <3>3, <4>1 DEF Names
    <3> QED BY <1>1, <1>2, <2>2, <3>1, <3>2, <3>3, EntriesAre DEF Absent
  <2> QED BY <2>1, <2>2
<1>3. ASSUME NEW t \in DOMAIN tasks', NEW c \in tasks'[t].gone PROVE \E g \in Globs : NamedNow(c, g)
  <2>1. CASE t \in DOMAIN tasks /\ c \in tasks[t].gone
    BY <1>1, <2>1 DEF Named
  <2>2. CASE ~(t \in DOMAIN tasks /\ c \in tasks[t].gone)
    <3>1. PICK g \in Globs : entries[g].count = 1 /\ entries[g].id = c
      BY <2>2, GoneAre
    <3> QED BY <1>1, <3>1 DEF Named
  <2> QED BY <2>1, <2>2
<1>4. ASSUME NEW c \in DOMAIN client' PROVE NamedNow(c, client'[c])
  <2>1. CASE c \in DOMAIN client /\ client'[c] = client[c]
    BY <1>1, <2>1 DEF Named
  <2>2. CASE ~(c \in DOMAIN client /\ client'[c] = client[c])
    <3>1. PICK t \in DOMAIN tasks, g \in Globs :
            g \in tasks[t].want.globs /\ tasks[t].want \in Used /\ client' = With(client, GlobID(tasks[t].want, g), g)
      <4>1. client' # client
        BY <1>4, <2>2
      <4>2. ASSUME NEW x, client' = Without(client, x) PROVE FALSE
        BY <1>4, <2>2, <4>2, WithoutIs
      <4> HIDE DEF NamedNow
      <4> QED BY <4>1, <4>2, ClientAre
    <3>2. c = GlobID(tasks[t].want, g) /\ client'[c] = g
      <4>1. ASSUME NEW id, client' = With(client, id, g) PROVE c = id /\ client'[c] = g
        BY <1>4, <2>2, <4>1 DEF With
      <4> QED BY <3>1, <4>1
    <3>3. Names(c, client'[c])
      BY <3>1, <3>2 DEF Names
    <3> QED BY <1>1, <3>3
  <2> QED BY <2>1, <2>2
<1> QED BY <1>2, <1>3, <1>4 DEF Named, Names

-----------------------------------------------------------------------------
(* Ids that name one set of globs.                                              *)

\* An id that is not 0 names one glob.
LEMMA IdNamesOne ==
  ASSUME IdsUnique, NEW c, NEW g, NEW h, Names(c, g), Names(c, h), c[1] # 0
  PROVE  g = h
<1>1. PICK v \in Used : g \in v.globs /\ c = GlobID(v, g)
  BY DEF Names
<1>2. PICK w \in Used : h \in w.globs /\ c = GlobID(w, h)
  BY DEF Names
<1>3. v \in Watcher /\ w \in Watcher
  BY DEF Used
<1>4. v.id = c[1] /\ w.id = c[1]
  BY <1>1, <1>2, <1>3, IdIs
<1>5. v = w
  BY <1>4 DEF IdsUnique
<1> QED BY <1>1, <1>2, <1>3, <1>5, IdsDiffer

\* What a watcher's id names, and whose id it is.
LEMMA IdIsOf ==
  ASSUME IdsUnique, NEW w \in Used, NEW v \in Used, NEW g \in w.globs, NEW h \in v.globs,
         GlobID(w, g) = GlobID(v, h), w.id # 0 \/ v.id # 0
  PROVE  w = v /\ g = h
<1>1. v \in Watcher /\ w \in Watcher
  BY DEF Used
<1>2. w.id = v.id
  BY <1>1, IdIs
<1>3. v = w
  BY <1>2 DEF IdsUnique
<1> QED BY <1>1, <1>3, IdsDiffer

\* An entry is there as before, or has been made.
LEMMA EntryNow ==
  ASSUME Typed, Shapes, Sources, History, Answered, Named, [Next]_vars, NEW g \in Globs, entries'[g].count > 0
  PROVE  \/ entries[g].count > 0 /\ entries'[g].id = entries[g].id
         \/ \E t \in DOMAIN tasks :
              /\ Acquire(t) /\ Acquiring(t, g) /\ g \in tasks[t].want.globs /\ entries[g].count = 0
              /\ entries'[g].count = 1 /\ entries'[g].id = GlobID(tasks[t].want, g)
              /\ tasks[t].want \in Used /\ tasks[t].want \in Watcher
<1>1. entries[g].count \in Nat
  BY DEF Typed
<1>2. CASE entries'[g] = entries[g]
  BY <1>2
<1>3. CASE entries'[g] # entries[g]
  <2>1. PICK t \in DOMAIN tasks :
           LET k == tasks[t] IN
           /\ g \in k.todo
           /\ \/ /\ Acquire(t) /\ g \in k.want.globs
                 /\ entries'[g].count = entries[g].count + 1
                 /\ entries[g].count = 0 => entries'[g].id = GlobID(k.want, g)
                 /\ entries[g].count # 0 => entries'[g].id = entries[g].id
              \/ /\ Rollback(t) \/ (ReleaseOld(t) /\ g \in k.old.globs)
                 /\ \/ entries[g].count <= 1 /\ entries'[g] = Absent
                    \/ /\ entries[g].count > 1 /\ entries'[g].count = entries[g].count - 1
                       /\ entries'[g].id = entries[g].id
    BY <1>3, EntriesAre
  <2>2. Acquire(t) => Acquiring(t, g) /\ tasks[t].want \in Used /\ tasks[t].want \in Watcher
    BY <2>1, UsedWant DEF Acquire, Acquiring, Updating
  <2> QED BY <1>1, <2>1, <2>2 DEF Absent
<1> QED BY <1>2, <1>3

\* An id has to be unregistered since before, or since its glob's count ended.
LEMMA GoneNow ==
  ASSUME Typed, Shapes, History, Answered, Named, [Next]_vars, NEW c, Gone(c)'
  PROVE  \/ Gone(c)
         \/ \E g \in Globs : entries[g].count = 1 /\ entries[g].id = c /\ entries'[g] = Absent
<1>1. PICK t \in DOMAIN tasks' : c \in tasks'[t].gone
  BY DEF Gone
<1>2. CASE t \in DOMAIN tasks /\ c \in tasks[t].gone
  BY <1>2 DEF Gone
<1>3. CASE ~(t \in DOMAIN tasks /\ c \in tasks[t].gone)
  BY <1>1, <1>3, GoneAre
<1> QED BY <1>2, <1>3

\* The globs that are to be registered.
LEMMA WatchedNow ==
  ASSUME Typed, Shapes, Sources, History, Answered, Named, [Next]_vars, failures' = 0, NEW g \in Globs,
         NEW t \in DOMAIN tasks', ToBeWatched(t, g)'
  PROVE  /\ t \in DOMAIN tasks /\ tasks'[t].want = tasks[t].want
         /\ \/ ToBeWatched(t, g)
            \/ /\ Acquire(t) /\ Acquiring(t, g) /\ entries[g].count = 0
               /\ entries'[g].count > 0 /\ entries'[g].id = GlobID(tasks[t].want, g)
<1>1. CASE UNCHANGED vars
  BY <1>1 DEF vars, ToBeWatched
<1>2. CASE UpdateSnapshot
  <2>1. PICK n : AdoptedAs(n)
    BY <1>2, UpdateDoes DEF Adopted
  <2>2. t # n
    BY <2>1 DEF AdoptedAs, ToBeWatched
  <2> QED BY <2>1, <2>2 DEF AdoptedAs, ToBeWatched
<1>3. ASSUME NEW u \in DOMAIN tasks, EndTask(u) PROVE t \in DOMAIN tasks /\ tasks'[t] = tasks[t]
  BY <1>3, EndDoes
<1>4. ASSUME NEW u \in DOMAIN tasks, Steps(u), u # t PROVE t \in DOMAIN tasks /\ tasks'[t] = tasks[t]
  BY <1>4, StepsMove DEF Moved
<1>5. ASSUME t \in DOMAIN tasks, Steps(t)
      PROVE  /\ tasks'[t].want = tasks[t].want
             /\ \/ ToBeWatched(t, g)
                \/ /\ Acquire(t) /\ Acquiring(t, g) /\ entries[g].count = 0
                   /\ entries'[g].count > 0 /\ entries'[g].id = GlobID(tasks[t].want, g)
  <2>1. CASE VisitSlot(t)
    <3>1. tasks'[t].fresh = {} /\ tasks'[t].pc # "watch"
      BY <2>1, <1>5, VisitDoes
    <3> QED BY <3>1 DEF ToBeWatched
  <2>2. CASE Acquire(t)
    <3>1. PICK h \in tasks[t].todo :
            /\ tasks'[t].fresh = IF entries[h].count = 0 THEN tasks[t].fresh \cup {h} ELSE tasks[t].fresh
            /\ tasks'[t].pc = "watch" => tasks'[t].todo = tasks'[t].fresh
            /\ entries' = [entries EXCEPT ![h] =
                 [count |-> entries[h].count + 1,
                  id |-> IF entries[h].count = 0 THEN GlobID(tasks[t].want, h) ELSE entries[h].id]]
      BY <1>5, <2>2, AcquireDoes
    <3>2. tasks'[t].want = tasks[t].want /\ tasks[t].pc = "acquire"
      BY <1>5, <2>2, AcquireDoes DEF SameUpdate
    <3>3. CASE ToBeWatched(t, g)
      BY <3>2, <3>3
    <3>4. CASE ~ToBeWatched(t, g)
      <4>1. g = h /\ entries[h].count = 0
        BY <3>1, <3>2, <3>4 DEF ToBeWatched
      <4>2. entries'[g].count = 1 /\ entries'[g].id = GlobID(tasks[t].want, g)
        BY <3>1, <4>1 DEF Typed
      <4> QED BY <2>2, <3>2, <4>1, <4>2 DEF Acquiring
    <3> QED BY <3>3, <3>4
  <2>3. CASE WatchFiles(t)
    <3>1. /\ tasks'[t].pc = "watch" => tasks'[t].todo \subseteq tasks[t].todo
          /\ tasks'[t].pc \in {"watch", "rollback", "clear"} /\ SameUpdate(tasks[t], tasks'[t]) /\ tasks[t].pc = "watch"
      BY <1>5, <2>3, WatchDoes
    <3> QED BY <3>1 DEF ToBeWatched, SameUpdate
  <2>4. CASE Rollback(t)
    <3>1. tasks'[t].pc = "rollback"
      BY <1>5, <2>4, RollbackDoes
    <3> QED BY <3>1 DEF ToBeWatched
  <2>5. CASE MarkPending(t) \/ ClearPending(t)
    <3>1. tasks'[t].pc \in {"visit", "release"}
      BY <1>5, <2>5, MarkDoes, ClearDoes DEF Turns
    <3> QED BY <3>1 DEF ToBeWatched
  <2>6. CASE ReleaseOld(t)
    <3>1. tasks'[t].pc \in {"visit", "release", "unwatch"}
      BY <1>5, <2>6, ReleaseDoes
    <3> QED BY <3>1 DEF ToBeWatched
  <2>7. CASE UnwatchFiles(t)
    <3>1. tasks'[t].pc \in {"visit", "unwatch"}
      BY <1>5, <2>7, UnwatchDoes
    <3> QED BY <3>1 DEF ToBeWatched
  <2> QED BY <1>5, <2>1, <2>2, <2>3, <2>4, <2>5, <2>6, <2>7 DEF Steps
<1>6. ASSUME NEW u \in DOMAIN tasks, Steps(u) PROVE t \in DOMAIN tasks
  BY <1>6, StepsMove DEF Moved
<1>7. t \in DOMAIN tasks /\ tasks'[t] = tasks[t] => ToBeWatched(t, g)
  BY DEF ToBeWatched
<1> QED BY <1>1, <1>2, <1>3, <1>4, <1>5, <1>6, <1>7 DEF Next, TaskStep, Steps

\* What is to be registered stays so until the client has it.
LEMMA WatchedUntil ==
  ASSUME Typed, Shapes, Sources, History, Answered, Named, [Next]_vars, failures' = 0, NEW g \in Globs,
         NEW t \in DOMAIN tasks, ToBeWatched(t, g)
  PROVE  \/ t \in DOMAIN tasks' /\ ToBeWatched(t, g)' /\ tasks'[t].want = tasks[t].want
         \/ WatchFiles(t) /\ client' = With(client, GlobID(tasks[t].want, g), g)
<1>1. CASE UNCHANGED vars
  BY <1>1 DEF vars, ToBeWatched
<1>2. CASE UpdateSnapshot
  <2>1. PICK n : AdoptedAs(n)
    BY <1>2, UpdateDoes DEF Adopted
  <2> QED BY <2>1 DEF AdoptedAs, ToBeWatched
<1>3. ASSUME NEW u \in DOMAIN tasks, EndTask(u) PROVE t \in DOMAIN tasks' /\ tasks'[t] = tasks[t]
  BY <1>3, EndDoes DEF ToBeWatched
<1>4. ASSUME NEW u \in DOMAIN tasks, Steps(u), u # t PROVE t \in DOMAIN tasks' /\ tasks'[t] = tasks[t]
  BY <1>4, StepsMove DEF Moved
<1>5. CASE Acquire(t)
  <2>1. PICK h \in tasks[t].todo :
          /\ tasks'[t].fresh = IF entries[h].count = 0 THEN tasks[t].fresh \cup {h} ELSE tasks[t].fresh
          /\ \/ tasks'[t].pc = "acquire"
             \/ tasks'[t].pc = "watch" /\ tasks'[t].todo = tasks'[t].fresh
             \/ tasks'[t].pc = "clear" /\ tasks'[t].fresh = {}
    BY <1>5, AcquireDoes
  <2>2. tasks'[t].want = tasks[t].want /\ tasks[t].pc = "acquire" /\ DOMAIN tasks' = DOMAIN tasks
    BY <1>5, AcquireDoes DEF SameUpdate, Moved
  <2> QED BY <2>1, <2>2 DEF ToBeWatched
<1>6. CASE WatchFiles(t)
  <2>1. failures \in Nat
    BY OnlyMore
  <2>2. PICK h \in tasks[t].todo :
          /\ client' = With(client, GlobID(tasks[t].want, h), h)
          /\ (tasks'[t].pc = "watch" /\ tasks'[t].todo = tasks[t].todo \ {h}) \/ tasks[t].todo = {h}
    <3>1. failures' # failures + 1
      BY <2>1
    <3> QED BY <1>6, <3>1, WatchDoes
  <2>3. tasks'[t].want = tasks[t].want /\ tasks[t].pc = "watch" /\ DOMAIN tasks' = DOMAIN tasks
    BY <1>6, WatchDoes DEF SameUpdate, Moved
  <2>4. g \in tasks[t].todo
    BY <2>3 DEF ToBeWatched
  <2>5. CASE g = h
    BY <1>6, <2>2, <2>5
  <2>6. CASE g # h
    BY <2>2, <2>3, <2>4, <2>6 DEF ToBeWatched
  <2> QED BY <2>5, <2>6
<1>7. ASSUME Steps(t) PROVE Acquire(t) \/ WatchFiles(t)
  BY <1>7 DEF Steps, ToBeWatched, VisitSlot, Rollback, MarkPending, ClearPending, ReleaseOld, UnwatchFiles
<1>8. t \in DOMAIN tasks' /\ tasks'[t] = tasks[t] => ToBeWatched(t, g)'
  BY DEF ToBeWatched
<1> QED BY <1>1, <1>2, <1>3, <1>4, <1>5, <1>6, <1>7, <1>8 DEF Next, TaskStep, Steps

\* A glob that is newly counted is to be registered.
LEMMA NewlyWatched ==
  ASSUME Typed, Shapes, Sources, History, Answered, Named, NEW t \in DOMAIN tasks, Acquire(t), NEW g \in Globs,
         entries[g].count = 0, entries'[g].count > 0
  PROVE  t \in DOMAIN tasks' /\ ToBeWatched(t, g)' /\ tasks'[t].want = tasks[t].want
<1>1. PICK h \in tasks[t].todo :
        /\ entries' = [entries EXCEPT ![h] =
             [count |-> entries[h].count + 1,
              id |-> IF entries[h].count = 0 THEN GlobID(tasks[t].want, h) ELSE entries[h].id]]
        /\ tasks'[t].fresh = IF entries[h].count = 0 THEN tasks[t].fresh \cup {h} ELSE tasks[t].fresh
        /\ \/ tasks'[t].pc = "acquire"
           \/ tasks'[t].pc = "watch" /\ tasks'[t].todo = tasks'[t].fresh
           \/ tasks'[t].pc = "clear" /\ tasks'[t].fresh = {}
  BY AcquireDoes
<1>2. tasks'[t].want = tasks[t].want /\ DOMAIN tasks' = DOMAIN tasks
  BY AcquireDoes DEF SameUpdate, Moved
<1>3. g = h
  BY <1>1 DEF Typed
<1> QED BY <1>1, <1>2, <1>3 DEF ToBeWatched

\* In order, or as long as no watcher is recloned, a glob is newly counted for a watcher
\* that has an id: the others find it counted by those they were cloned from.
LEMMA FreshId ==
  ASSUME Typed, Shapes, Sources, History, Single, Counted, failures = 0, NoneRecloned \/ ~overlapped,
         NEW t \in DOMAIN tasks, NEW g \in Globs, Acquiring(t, g), entries[g].count = 0
  PROVE  tasks[t].want.id # 0
<1>1. PICK s \in Slots : Source(t, s)
  BY DEF Sources, Acquiring
<1>2. /\ tasks[t].want # None /\ g \in tasks[t].want.globs /\ tasks[t].want \in Watcher
      /\ tasks[t].pc \in Updating /\ t \in 2 .. Len(snaps) /\ t \in DOMAIN snaps
  BY WatcherTypes DEF Acquiring, Shapes, Shape, Updating, Typed
<1>3. /\ tasks[t].want = snaps[t][s] /\ tasks[t].old = snaps[t - 1][s] /\ tasks[t].old # tasks[t].want
  BY <1>1 DEF Source
<1>4. CASE NoneRecloned
  BY <1>2, <1>3, <1>4 DEF NoneRecloned
<1>5. ASSUME ~overlapped, tasks[t].want.id = 0 PROVE FALSE
  <2>1. Brings(t, s, tasks[t].want)
    BY <1>2, <1>3 DEF Brings, Changes
  <2>2. HasGlob(tasks[t].old, g)
    BY <1>2, <1>3, <1>5, <2>1 DEF History, GlobsKept, HasGlob
  <2>3. Releasing(t, g)
    BY <1>2, <2>2 DEF Releasing
  <2>4. <<t>> \in ToGiveUp(g) /\ IsFiniteSet(ToGiveUp(g)) /\ Due(g) \in Int
    BY <2>3, FiniteLeft DEF ToGiveUp
  <2>5. Cardinality(ToGiveUp(g)) \in Nat /\ Cardinality(ToGiveUp(g)) > 0
    BY <2>4, OneLess
  <2>6. Due(g) >= Cardinality(ToGiveUp(g))
    BY <1>5, OrderedDue
  <2>7. entries[g].count = Due(g)
    BY <1>5 DEF Counted
  <2> QED BY <2>4, <2>5, <2>6, <2>7
<1> QED BY <1>4, <1>5

\* A watcher that is ahead was so before, unless it has come; who acquires a glob first is
\* the only one whom that watcher was ahead of.
LEMMA AheadNow ==
  ASSUME Typed, Shapes, Sources, History, Answered, Named, [Next]_vars, failures' = 0,
         NEW w \in Used, w.id # 0, NEW g \in Globs, Ahead(w, g)'
  PROVE  Ahead(w, g)
<1>1. failures = 0
  BY OnlyMore
<1>2. PICK u \in DOMAIN tasks' : \/ \E s \in tasks'[u].slots : Brings(u, s, w)'
                                 \/ tasks'[u].want = w /\ Acquiring(u, g)'
  BY DEF Ahead
<1>3. ASSUME snaps' = snaps, u \in DOMAIN tasks, tasks'[u] = tasks[u] PROVE Ahead(w, g)
  BY <1>2, <1>3 DEF Ahead, Brings, Changes, Acquiring
<1>4. CASE UNCHANGED vars
  BY <1>3, <1>4 DEF vars
<1>5. CASE UpdateSnapshot
  <2>1. PICK n : n = Len(snaps) + 1 /\ AdoptedAs(n) /\ Adopted
    BY <1>5, UpdateDoes DEF Adopted
  <2>2. ASSUME u = n PROVE FALSE
    <3>1. PICK s \in Slots : Brings(n, s, w)'
      BY <1>2, <2>1, <2>2 DEF AdoptedAs, Acquiring
    <3>2. Arrives(s, w) /\ w \in Watcher
      BY <2>1, <3>1, Before DEF Used
    <3>3. Newcomer(w)
      BY <2>1, <3>2, NewWatchers
    <3> QED BY <2>1, <3>3, NewIds DEF History
  <2>3. u \in DOMAIN tasks /\ tasks'[u] = tasks[u]
    BY <2>1, <2>2 DEF AdoptedAs
  <2>4. \A s : Brings(u, s, w)' <=> Brings(u, s, w)
    BY <2>1, <2>2, Before
  <2>5. Acquiring(u, g)' => Acquiring(u, g)
    BY <2>3 DEF Acquiring
  <2> QED BY <1>2, <2>3, <2>4, <2>5 DEF Ahead
<1>6. ASSUME NEW t \in DOMAIN tasks, EndTask(t) PROVE Ahead(w, g)
  BY <1>3, <1>6, EndDoes DEF EndTask
<1>7. ASSUME NEW t \in DOMAIN tasks, Steps(t) PROVE Ahead(w, g)
  <2>1. Moved(t) /\ snaps' = snaps
    BY <1>7, StepsMove
  <2>2. CASE u # t
    BY <1>3, <2>1, <2>2 DEF Moved
  <2>3. CASE u = t /\ VisitSlot(t)
    <3>1. PICK s \in tasks[t].slots :
            LET r    == tasks'[t]
                old  == snaps[t - 1][s]
                want == snaps[t][s]
            IN  /\ r.slots = tasks[t].slots \ {s}
                /\ \/ r.pc = "visit"
                   \/ r.pc = "acquire" /\ r.want = want /\ r.old = old /\ old # want
                   \/ r.pc = "release"
      <4>1. ~(failures > 0)
        BY <1>1
      <4> QED BY <2>3, <4>1, VisitDoes
    <3>2. s \in Slots /\ t \in 2 .. Len(snaps)
      BY <3>1, WatcherTypes
    <3>3. ASSUME tasks'[t].want = w, Acquiring(t, g)' PROVE Brings(t, s, w)
      BY <3>1, <3>2, <3>3 DEF Acquiring, Brings, Changes
    <3>4. \A q : Brings(t, q, w)' => Brings(t, q, w)
      BY <2>1 DEF Brings, Changes
    <3> QED BY <1>2, <2>3, <3>1, <3>3, <3>4 DEF Ahead
  <2>4. CASE u = t /\ ~VisitSlot(t)
    <3>1. tasks'[t].slots = tasks[t].slots
      BY <1>7, <2>4, StepsContinue
    <3>2. \A q : Brings(t, q, w)' => Brings(t, q, w)
      BY <2>1 DEF Brings, Changes
    <3>3. ASSUME tasks'[t].want = w, Acquiring(t, g)' PROVE tasks[t].want = w /\ Acquiring(t, g)
      <4>1. Acquire(t)
        <5>1. WatchFiles(t) => tasks'[t].pc # "acquire"
          BY WatchDoes
        <5>2. Rollback(t) => tasks'[t].pc # "acquire"
          BY RollbackDoes
        <5>3. MarkPending(t) \/ ClearPending(t) => tasks'[t].pc # "acquire"
          BY MarkDoes, ClearDoes DEF Turns
        <5>4. ReleaseOld(t) => tasks'[t].pc # "acquire"
          BY ReleaseDoes
        <5>5. UnwatchFiles(t) => tasks'[t].pc # "acquire"
          BY UnwatchDoes
        <5> QED BY <1>7, <2>4, <3>3, <5>1, <5>2, <5>3, <5>4, <5>5 DEF Steps, Acquiring
      <4>2. /\ tasks[t].pc = "acquire" /\ SameUpdate(tasks[t], tasks'[t])
            /\ tasks'[t].pc = "acquire" => tasks'[t].todo \subseteq tasks[t].todo
        BY <4>1, AcquireDoes
      <4> QED BY <3>3, <4>2 DEF Acquiring, SameUpdate
    <3> QED BY <1>2, <2>4, <3>1, <3>2, <3>3 DEF Ahead
  <2> QED BY <2>2, <2>3, <2>4
<1> QED BY <1>4, <1>5, <1>6, <1>7 DEF Next, TaskStep, Steps

\* Once a watcher has acquired a glob, it is not ahead of it.
LEMMA AcquiredOnce ==
  ASSUME Typed, Shapes, Sources, History, Answered, Named, failures = 0, NEW t \in DOMAIN tasks, Acquire(t),
         NEW g \in Globs, entries'[g] # entries[g], NEW w, w = tasks[t].want, w.id # 0
  PROVE  ~Ahead(w, g)'
<1> SUFFICES ASSUME Ahead(w, g)' PROVE FALSE
  OBVIOUS
<1>1. /\ w \in Used /\ w.id # 0 /\ tasks[t].pc = "acquire"
  BY UsedWant DEF Acquire, Updating
<1>2. PICK s \in Slots \ tasks[t].slots : Brings(t, s, w)
  <2>1. PICK s \in Slots : Source(t, s)
    BY <1>1 DEF Sources
  <2>2. t \in 2 .. Len(snaps)
    BY WatcherTypes
  <2> QED BY <2>1, <2>2 DEF Source, Brings, Changes
<1>3. Moved(t) /\ SameUpdate(tasks[t], tasks'[t]) /\ snaps' = snaps
  BY AcquireDoes DEF Acquire
<1>4. ~Acquiring(t, g)'
  <2>1. PICK h \in tasks[t].todo :
        /\ entries' = [entries EXCEPT ![h] =
             [count |-> entries[h].count + 1,
              id |-> IF entries[h].count = 0 THEN GlobID(tasks[t].want, h) ELSE entries[h].id]]
        /\ tasks'[t].pc = "acquire" => tasks'[t].todo = tasks[t].todo \ {h}
    BY AcquireDoes
  <2>2. g = h
    BY <2>1 DEF Typed
  <2> QED BY <2>1, <2>2 DEF Acquiring
<1>5. PICK u \in DOMAIN tasks : \/ \E r \in tasks[u].slots : Brings(u, r, w)
                                \/ u # t /\ tasks[u].want = w /\ Acquiring(u, g)
  <2>1. PICK u \in DOMAIN tasks' : \/ \E r \in tasks'[u].slots : Brings(u, r, w)'
                                   \/ tasks'[u].want = w /\ Acquiring(u, g)'
    BY DEF Ahead
  <2>2. u \in DOMAIN tasks /\ \A r : Brings(u, r, w)' => Brings(u, r, w)
    BY <1>3, <2>1 DEF Moved, Brings, Changes
  <2>3. tasks'[u].slots = tasks[u].slots /\ (u # t => tasks'[u] = tasks[u])
    BY <1>3, <2>2 DEF Moved, SameUpdate
  <2>4. u # t => (Acquiring(u, g)' => Acquiring(u, g))
    BY <2>3 DEF Acquiring
  <2> QED BY <1>4, <2>1, <2>2, <2>3, <2>4
<1>6. PICK r \in Slots : Brings(u, r, w) /\ (u = t => r \in tasks[u].slots)
  <2>1. CASE \E r \in tasks[u].slots : Brings(u, r, w)
    BY <2>1, WatcherTypes
  <2>2. CASE u # t /\ tasks[u].want = w /\ Acquiring(u, g)
    <3>1. PICK r \in Slots : Source(u, r)
      BY <2>2 DEF Sources, Acquiring
    <3>2. u \in 2 .. Len(snaps)
      BY WatcherTypes
    <3> QED BY <2>2, <3>1, <3>2 DEF Source, Brings, Changes
  <2> QED BY <1>5, <2>1, <2>2
<1>7. u = t
  <2>1. u \in Nat /\ t \in Nat
    BY WatcherTypes
  <2> QED BY <1>1, <1>2, <1>6, <2>1 DEF History, BroughtOnce
<1>8. s = r
  <2>1. t \in DOMAIN snaps
    BY WatcherTypes DEF Typed
  <2>2. snaps[t][s] = w /\ snaps[t][r] = w
    BY <1>2, <1>6, <1>7 DEF Brings
  <2> QED BY <1>1, <2>1, <2>2 DEF History, OneSlot
<1> QED BY <1>2, <1>6, <1>7, <1>8

\* Ids that name one set of globs each did so before.
LEMMA DistinctWas ==
  ASSUME Typed, Shapes, History, Answered, Named, [Next]_vars, Distinct'
  PROVE  Distinct /\ failures' = 0 /\ failures = 0
<1>1. failures' = 0 /\ failures = 0 /\ (~overlapped' => ~overlapped)
  BY OnlyMore DEF Distinct
<1>2. NoneRecloned' => NoneRecloned
  <2>1. CASE UpdateSnapshot
    <3>1. Adopted
      BY <2>1, UpdateDoes
    <3>2. DOMAIN snaps \subseteq DOMAIN snaps' /\ \A n \in DOMAIN snaps : snaps'[n] = snaps[n]
      BY <3>1, Before
    <3> QED BY <3>2 DEF NoneRecloned
  <2>2. CASE ~UpdateSnapshot
    BY <2>2, UsedGrows DEF NoneRecloned
  <2> QED BY <2>1, <2>2
<1> QED BY <1>1, <1>2 DEF Distinct

\* What is counted under an id goes on being registered or about to be.
LEMMA EntriesUnique ==
  ASSUME Typed, Shapes, Sources, History, Answered, Single, Counted, Named, Unique, [Next]_vars, Distinct',
         NEW g \in Globs, entries'[g].count > 0, NEW c, c = entries'[g].id
  PROVE  /\ c[1] # 0 /\ ~Gone(c)'
         /\ \/ Registered(c, g)'
            \/ \E t \in DOMAIN tasks' : ToBeWatched(t, g)' /\ c = GlobID(tasks'[t].want, g)
<1>1. Distinct /\ failures' = 0 /\ failures = 0
  BY DistinctWas
<1>2. IdsUnique
  BY DEF History
<1>3. CASE entries[g].count > 0 /\ entries[g].id = c
  <2>1. /\ c[1] # 0 /\ ~Gone(c) /\ Names(c, g)
        /\ Registered(c, g) \/ \E t \in DOMAIN tasks : ToBeWatched(t, g) /\ c = GlobID(tasks[t].want, g)
    BY <1>1, <1>3 DEF Unique, Named
  <2>2. ~Gone(c)'
    <3>1. ASSUME NEW h \in Globs, entries[h].count = 1, entries[h].id = c, entries'[h] = Absent PROVE FALSE
      <4>1. Names(c, h)
        BY <3>1 DEF Named
      <4>2. g = h
        BY <1>2, <2>1, <4>1, IdNamesOne
      <4> QED BY <3>1, <4>2 DEF Absent
    <3> QED BY <2>1, <3>1, GoneNow
  <2>3. ASSUME Registered(c, g) PROVE Registered(c, g)'
    <3>1. CASE client' = client
      BY <2>3, <3>1 DEF Registered
    <3>2. ASSUME NEW t \in DOMAIN tasks, tasks[t].want \in Used, NEW h \in Globs, h \in tasks[t].want.globs,
                 client' = With(client, GlobID(tasks[t].want, h), h)
          PROVE  Registered(c, g)'
      <4>1. CASE c = GlobID(tasks[t].want, h)
        <5>1. Names(c, h)
          BY <3>2, <4>1 DEF Names
        <5>2. g = h
          BY <1>2, <2>1, <5>1, IdNamesOne
        <5> QED BY <3>2, <4>1, <5>2 DEF With, Registered
      <4>2. CASE c # GlobID(tasks[t].want, h)
        BY <2>3, <3>2, <4>2 DEF With, Registered
      <4> QED BY <4>1, <4>2
    <3>3. ASSUME NEW t \in DOMAIN tasks, NEW x \in tasks[t].gone, client' = Without(client, x) PROVE Registered(c, g)'
      <4>1. c # x
        BY <2>1, <3>3 DEF Gone
      <4> QED BY <2>3, <3>3, <4>1 DEF Without, Registered
    <3> QED BY <3>1, <3>2, <3>3, ClientAre
  <2>4. ASSUME NEW t \in DOMAIN tasks, ToBeWatched(t, g), c = GlobID(tasks[t].want, g)
        PROVE  \/ Registered(c, g)'
               \/ t \in DOMAIN tasks' /\ ToBeWatched(t, g)' /\ c = GlobID(tasks'[t].want, g)
    <3>1. CASE client' = With(client, GlobID(tasks[t].want, g), g)
      BY <2>4, <3>1 DEF With, Registered
    <3> QED BY <1>1, <2>4, <3>1, WatchedUntil
  <2> QED BY <2>1, <2>2, <2>3, <2>4
<1>4. ASSUME NEW t \in DOMAIN tasks, Acquire(t), Acquiring(t, g), g \in tasks[t].want.globs, entries[g].count = 0,
             c = GlobID(tasks[t].want, g), tasks[t].want \in Used, tasks[t].want \in Watcher
      PROVE  /\ c[1] # 0 /\ ~Gone(c)'
             /\ t \in DOMAIN tasks' /\ ToBeWatched(t, g)' /\ c = GlobID(tasks'[t].want, g)
  <2>1. tasks[t].want.id # 0
    BY <1>1, <1>4, FreshId DEF Distinct
  <2>2. c[1] # 0
    BY <1>4, <2>1, IdIs
  <2>3. ~Gone(c)
    <3>1. Ahead(tasks[t].want, g)
      BY <1>4 DEF Ahead
    <3> QED BY <1>1, <1>4, <2>1, <3>1 DEF Unique, Taken
  <2>4. ~Gone(c)'
    <3>1. ASSUME NEW h \in Globs, entries[h].count = 1, entries[h].id = c PROVE FALSE
      <4>1. Names(c, h) /\ Names(c, g)
        BY <1>4, <3>1 DEF Named, Names
      <4>2. g = h
        BY <1>2, <2>2, <4>1, IdNamesOne
      <4> QED BY <1>4, <3>1, <4>2
    <3> QED BY <2>3, <3>1, GoneNow
  <2>5. t \in DOMAIN tasks' /\ ToBeWatched(t, g)' /\ tasks'[t].want = tasks[t].want
    BY <1>4, NewlyWatched
  <2> QED BY <1>4, <2>2, <2>4, <2>5
<1> QED BY <1>3, <1>4, EntryNow

\* Who is ahead of an id finds it free.
LEMMA AheadUnique ==
  ASSUME Typed, Shapes, Sources, History, Answered, Single, Counted, Named, Unique, [Next]_vars, Distinct',
         NEW w \in Used', NEW g \in w.globs, g \in Globs, w.id # 0, Ahead(w, g)', NEW c, c = GlobID(w, g)
  PROVE  ~(entries'[g].count > 0 /\ entries'[g].id = c) /\ ~Gone(c)'
<1>1. Distinct /\ failures' = 0 /\ failures = 0
  BY DistinctWas
<1>2. IdsUnique
  BY DEF History
<1>3. w \in Watcher
  BY DEF Used
<1>4. CASE w \notin Used
  <2>1. Adopted /\ entries' = entries
    BY <1>4, UsedGrows, UpdateDoes DEF UpdateSnapshot, registry
  <2>2. w.id = lastID + 1
    BY <1>4, <2>1, NewWatchers, NewIds DEF History
  <2>3. ASSUME NEW h, Names(c, h) PROVE FALSE
    <3>1. PICK v \in Used : h \in v.globs /\ c = GlobID(v, h)
      BY <2>3 DEF Names
    <3>2. v \in Watcher
      BY DEF Used
    <3>3. v.id = w.id
      BY <1>3, <3>1, <3>2, IdIs
    <3>4. v.id <= lastID /\ lastID \in Nat
      BY <2>1, Before DEF History, IdsBelow
    <3> QED BY <2>2, <3>3, <3>4
  <2>4. ~Gone(c)
    BY <2>3 DEF Gone, Named
  <2>5. \A h \in Globs : entries[h].count > 0 => entries[h].id # c
    BY <2>3 DEF Named
  <2> QED BY <2>1, <2>4, <2>5, GoneNow
<1>5. CASE w \in Used
  <2>1. Ahead(w, g)
    BY <1>1, <1>5, AheadNow
  <2>2. ~(entries[g].count > 0 /\ entries[g].id = c) /\ ~Gone(c)
    BY <1>1, <1>5, <2>1 DEF Unique, Taken
  <2>3. c[1] # 0 /\ Names(c, g)
    BY <1>3, <1>5, IdIs DEF Names
  <2>4. ~Gone(c)'
    <3>1. ASSUME NEW h \in Globs, entries[h].count = 1, entries[h].id = c PROVE FALSE
      <4>1. Names(c, h)
        BY <3>1 DEF Named
      <4>2. g = h
        BY <1>2, <2>3, <4>1, IdNamesOne
      <4> QED BY <2>2, <3>1, <4>2
    <3> QED BY <2>2, <3>1, GoneNow
  <2>5. ASSUME entries'[g].count > 0, entries'[g].id = c PROVE FALSE
    <3>1. PICK t \in DOMAIN tasks :
              /\ Acquire(t) /\ g \in tasks[t].want.globs /\ entries[g].count = 0
              /\ entries'[g].id = GlobID(tasks[t].want, g) /\ tasks[t].want \in Used
      BY <2>2, <2>5, EntryNow
    <3>2. tasks[t].want = w
      BY <1>2, <1>5, <2>5, <3>1, IdIsOf
    <3>3. entries'[g] # entries[g]
      BY <2>5, <3>1
    <3> QED BY <1>1, <3>1, <3>2, <3>3, AcquiredOnce
  <2> QED BY <2>4, <2>5
<1> QED BY <1>4, <1>5

\* Every step keeps ids apart: none is reused while it is counted, gone or to come.
LEMMA UniqueKept ==
  ASSUME Typed, Shapes, Sources, History, Answered, Single, Counted, Named, Unique, [Next]_vars
  PROVE  Unique'
<1> SUFFICES ASSUME Distinct' PROVE Unique'
  BY DEF Unique
<1>1. Distinct /\ failures' = 0 /\ failures = 0
  BY DistinctWas
<1>2. ASSUME NEW t \in DOMAIN tasks', NEW g \in Globs, ToBeWatched(t, g)' PROVE tasks'[t].want.id # 0
  BY <1>1, <1>2, WatchedNow, FreshId DEF Unique, Distinct
<1>3. ASSUME NEW c \in IDs, c \in DOMAIN client' \/ Gone(c)' PROVE c[1] # 0
  <2>1. CASE c \in DOMAIN client \/ Gone(c)
    BY <1>1, <2>1 DEF Unique
  <2>2. CASE Gone(c)' /\ ~Gone(c)
    BY <1>1, <2>2, GoneNow DEF Unique
  <2>3. CASE c \in DOMAIN client' /\ c \notin DOMAIN client
    <3>1. client' # client
      BY <2>3
    <3>2. \A x : client' # Without(client, x)
      BY <2>3 DEF Without
    <3>3. PICK t \in DOMAIN tasks, g \in Globs :
            /\ WatchFiles(t) /\ tasks[t].want \in Watcher /\ g \in tasks[t].todo /\ g \in tasks[t].want.globs
            /\ client' = With(client, GlobID(tasks[t].want, g), g)
      BY <3>1, <3>2, ClientAre
    <3>4. ToBeWatched(t, g)
      BY <3>3 DEF WatchFiles, ToBeWatched
    <3>5. c = GlobID(tasks[t].want, g)
      BY <2>3, <3>3 DEF With
    <3>6. tasks[t].want.id # 0
      BY <1>1, <3>4 DEF Unique
    <3> QED BY <3>3, <3>5, <3>6, IdIs
  <2> QED BY <1>3, <2>1, <2>2, <2>3
<1>4. ASSUME NEW w \in Used', NEW g \in w.globs, w.id # 0, Ahead(w, g)', NEW c, c = GlobID(w, g)
      PROVE  ~(entries'[g].count > 0 /\ entries'[g].id = c) /\ ~Gone(c)'
  <2>1. g \in Globs
    BY DEF Used, Watcher
  <2> QED BY <1>4, <2>1, AheadUnique
<1>5. ASSUME NEW g \in Globs, entries'[g].count > 0, NEW c, c = entries'[g].id
      PROVE  /\ c[1] # 0 /\ ~Gone(c)'
             /\ \/ Registered(c, g)'
                \/ \E t \in DOMAIN tasks' : ToBeWatched(t, g)' /\ c = GlobID(tasks'[t].want, g)
  BY <1>5, EntriesUnique
<1>6. ASSUME NEW g \in Globs, entries'[g].count > 0
      PROVE  /\ entries'[g].id[1] # 0 /\ ~\E t \in DOMAIN tasks' : entries'[g].id \in tasks'[t].gone
             /\ \/ entries'[g].id \in DOMAIN client' /\ client'[entries'[g].id] = g
                \/ \E t \in DOMAIN tasks' : ToBeWatched(t, g)' /\ entries'[g].id = GlobID(tasks'[t].want, g)
  BY <1>5, <1>6 DEF Gone, Registered
<1>7. ASSUME NEW w \in Used', NEW g \in w.globs, w.id # 0, Ahead(w, g)'
      PROVE  /\ ~(entries'[g].count > 0 /\ entries'[g].id = GlobID(w, g))
             /\ ~\E t \in DOMAIN tasks' : GlobID(w, g) \in tasks'[t].gone
  BY <1>4, <1>7 DEF Gone
<1> QED BY <1>2, <1>3, <1>6, <1>7 DEF Unique, Taken, Gone, Registered

-----------------------------------------------------------------------------
(* In order.                                                                    *)

\* What is to be unregistered stays so until the client has dropped it.
LEMMA GoneUntil ==
  ASSUME Typed, Shapes, History, Answered, Named, [Next]_vars, failures' = 0, NEW c, Gone(c)
  PROVE  Gone(c)' \/ c \notin DOMAIN client'
<1>1. PICK t \in DOMAIN tasks : c \in tasks[t].gone
  BY DEF Gone
<1>2. ASSUME t \in DOMAIN tasks', tasks'[t] = tasks[t] PROVE Gone(c)'
  BY <1>1, <1>2 DEF Gone
<1>3. CASE UNCHANGED vars
  BY <1>2, <1>3 DEF vars
<1>4. CASE UpdateSnapshot
  <2>1. PICK n : AdoptedAs(n)
    BY <1>4, UpdateDoes DEF Adopted
  <2> QED BY <1>2, <2>1 DEF AdoptedAs
<1>5. ASSUME NEW u \in DOMAIN tasks, EndTask(u) PROVE Gone(c)'
  <2>1. u # t
    BY <1>1, <1>5, EndDoes DEF Shapes, Shape
  <2> QED BY <1>2, <1>5, <2>1, EndDoes
<1>6. ASSUME NEW u \in DOMAIN tasks, Steps(u), u # t PROVE Gone(c)'
  BY <1>2, <1>6, StepsMove DEF Moved
<1>7. CASE ReleaseOld(t)
  BY <1>1, <1>7, ReleaseDoes DEF Gone, Moved
<1>8. CASE UnwatchFiles(t)
  <2>1. failures = 0 /\ known = DOMAIN client /\ failures' # failures + 1
    BY OnlyMore DEF Answered
  <2>2. PICK x \in tasks[t].gone :
          /\ tasks'[t].gone = tasks[t].gone \ {x} /\ t \in DOMAIN tasks'
          /\ (x \notin known /\ client' = client) \/ client' = Without(client, x)
    BY <1>8, <2>1, UnwatchDoes DEF Moved
  <2>3. CASE x = c
    BY <2>1, <2>2, <2>3 DEF Without
  <2>4. CASE x # c
    BY <1>1, <2>2, <2>4 DEF Gone
  <2> QED BY <2>3, <2>4
<1>9. ASSUME Steps(t) PROVE ReleaseOld(t) \/ UnwatchFiles(t)
  BY <1>1, <1>9 DEF Steps, Shapes, Shape, Updating, VisitSlot, Acquire, WatchFiles, Rollback, MarkPending, ClearPending
<1> QED BY <1>3, <1>4, <1>5, <1>6, <1>7, <1>8, <1>9 DEF Next, TaskStep, Steps

\* An entry goes when the last of those who want the glob gives it up.
LEMMA EntryUntil ==
  ASSUME Typed, Shapes, Sources, History, Answered, Named, [Next]_vars, failures' = 0, NEW g \in Globs,
         entries[g].count > 0, NEW c, c = entries[g].id
  PROVE  \/ entries'[g].count > 0 /\ entries'[g].id = c
         \/ Gone(c)' /\ \E t \in DOMAIN tasks : ReleaseOld(t)
<1>1. entries[g].count \in Nat /\ failures = 0
  BY OnlyMore DEF Typed
<1>2. CASE entries'[g] = entries[g]
  BY <1>2
<1>3. CASE entries'[g] # entries[g]
  <2>1. PICK t \in DOMAIN tasks :
          \/ entries'[g].count = entries[g].count + 1 /\ entries'[g].id = entries[g].id
          \/ entries[g].count > 1 /\ entries'[g].count = entries[g].count - 1 /\ entries'[g].id = entries[g].id
          \/ (Rollback(t) \/ ReleaseOld(t)) /\ entries[g].count <= 1 /\ entries'[g] = Absent
    BY <1>1, <1>3, EntriesAre
  <2>2. CASE (Rollback(t) \/ ReleaseOld(t)) /\ entries[g].count <= 1
    <3>1. ReleaseOld(t)
      <4>1. ~Rollback(t)
        BY <1>1, RollbackDoes DEF Answered
      <4> QED BY <2>2, <4>1
    <3>2. PICK h \in tasks[t].todo :
            /\ h \in Globs /\ entries' = Released(h) /\ t \in DOMAIN tasks'
            /\ tasks'[t].gone = IF entries[h].count = 1 THEN tasks[t].gone \cup {entries[h].id} ELSE tasks[t].gone
      BY <3>1, ReleaseDoes DEF Moved
    <3>3. g = h
      BY <1>3, <3>2 DEF Released, Typed
    <3>4. entries[h].count = 1
      BY <1>1, <2>2, <3>3
    <3> QED BY <3>1, <3>2, <3>3, <3>4 DEF Gone
  <2> QED BY <1>1, <2>1, <2>2
<1> QED BY <1>2, <1>3

\* In order, every step keeps the registrations to what is counted.
LEMMA ExactKept ==
  ASSUME Typed, Shapes, Sources, History, Answered, Single, Named, Exact, [Next]_vars
  PROVE  Exact'
<1> SUFFICES ASSUME failures' = 0, ~overlapped' PROVE Exact'
  BY DEF Exact
<1>1. failures = 0 /\ ~overlapped
  BY OnlyMore
<1>2. ASSUME NEW t \in DOMAIN tasks', NEW g \in Globs, ToBeWatched(t, g)'
      PROVE  entries'[g].count > 0 /\ entries'[g].id = GlobID(tasks'[t].want, g)
  <2>1. t \in DOMAIN tasks /\ tasks'[t].want = tasks[t].want
    BY <1>2, WatchedNow
  <2>2. CASE ToBeWatched(t, g)
    <3>1. entries[g].count > 0 /\ entries[g].id = GlobID(tasks[t].want, g)
      BY <1>1, <2>1, <2>2 DEF Exact
    <3>2. ASSUME NEW u \in DOMAIN tasks, ReleaseOld(u) PROVE FALSE
      <4>1. u = t
        BY <1>1, <2>1 DEF Single
      <4> QED BY <2>2, <3>2, <4>1 DEF ReleaseOld, ToBeWatched
    <3> QED BY <2>1, <3>1, <3>2, EntryUntil
  <2>3. CASE ~ToBeWatched(t, g)
    BY <1>2, <2>1, <2>3, WatchedNow
  <2> QED BY <2>2, <2>3
<1>3. ASSUME NEW c \in DOMAIN client', NEW g, g = client'[c]
      PROVE  Gone(c)' \/ (entries'[g].count > 0 /\ entries'[g].id = c)
  <2>1. CASE c \in DOMAIN client /\ client[c] = g
    <3>1. g \in Globs
      BY <2>1 DEF Typed
    <3>2. Gone(c) \/ (entries[g].count > 0 /\ entries[g].id = c)
      BY <1>1, <2>1 DEF Exact
    <3>3. Gone(c) => Gone(c)'
      BY <1>3, GoneUntil
    <3> QED BY <3>1, <3>2, <3>3, EntryUntil
  <2>2. CASE ~(c \in DOMAIN client /\ client[c] = g)
    <3>1. client' # client
      BY <1>3, <2>2
    <3>2. \A x : client' # Without(client, x)
      BY <1>3, <2>2 DEF Without
    <3>3. PICK t \in DOMAIN tasks, h \in Globs :
            /\ WatchFiles(t) /\ h \in tasks[t].todo
            /\ client' = With(client, GlobID(tasks[t].want, h), h)
      BY <3>1, <3>2, ClientAre
    <3>4. c = GlobID(tasks[t].want, h) /\ g = h
      BY <1>3, <2>2, <3>3 DEF With
    <3>5. ToBeWatched(t, h)
      BY <3>3 DEF WatchFiles, ToBeWatched
    <3>6. entries' = entries
      BY <3>3 DEF WatchFiles, registry
    <3> QED BY <1>1, <3>4, <3>5, <3>6 DEF Exact
  <2> QED BY <2>1, <2>2
<1>4. ASSUME NEW c \in DOMAIN client'
      PROVE  \/ \E t \in DOMAIN tasks' : c \in tasks'[t].gone
             \/ entries'[client'[c]].count > 0 /\ entries'[client'[c]].id = c
  BY <1>3, <1>4 DEF Gone
<1> QED BY <1>2, <1>4 DEF Exact, Gone

-----------------------------------------------------------------------------
(* A glob of one watcher, whatever calls fail.                                  *)

\* c is the id under which w, and no other watcher, registers g.
OnlyFor(w, g, c) ==
  /\ w \in Used /\ w \in Watcher /\ w.id # 0 /\ g \in Globs /\ g \in w.globs /\ c = GlobID(w, g) /\ c[1] # 0
  /\ \A v \in Used : g \in v.globs => v = w

\* A glob that one watcher only has named has that watcher's id.
LEMMA SoleIs ==
  ASSUME History, NEW w, NEW g \in Globs, Sole(w, g), NEW c, c = GlobID(w, g)
  PROVE  OnlyFor(w, g, c)
<1>1. w \in Used /\ w \in {v \in Used : g \in v.globs} /\ \A v \in Used : g \in v.globs => v = w
  BY DEF Sole
<1>2. w \in Watcher /\ g \in w.globs
  BY <1>1 DEF Used
<1>3. PICK v \in Used : v.id # 0 /\ v.globs = w.globs
  BY <1>1, <1>2 DEF History, Originals
<1>4. v = w
  BY <1>1, <1>2, <1>3
<1>5. c[1] # 0
  BY <1>2, <1>3, <1>4, IdIs
<1> QED BY <1>1, <1>2, <1>3, <1>4, <1>5 DEF OnlyFor

\* The client keeps what is not to be unregistered.
LEMMA RegisteredStays ==
  ASSUME Typed, Shapes, Sources, History, Answered, Named, [Next]_vars, NEW w, NEW g, NEW c,
         OnlyFor(w, g, c), ~Gone(c), Registered(c, g)
  PROVE  Registered(c, g)'
<1>1. CASE client' = client
  BY <1>1 DEF Registered
<1>2. ASSUME NEW t \in DOMAIN tasks, tasks[t].want \in Used, NEW h \in Globs, h \in tasks[t].want.globs,
             client' = With(client, GlobID(tasks[t].want, h), h)
      PROVE  Registered(c, g)'
  <2>1. CASE c = GlobID(tasks[t].want, h)
    <3>1. g = h
      <4>1. Names(c, h) /\ Names(c, g) /\ IdsUnique /\ c[1] # 0
        BY <1>2, <2>1 DEF OnlyFor, Names, History
      <4> QED BY <4>1, IdNamesOne
    <3> QED BY <1>2, <2>1, <3>1 DEF With, Registered
  <2>2. CASE c # GlobID(tasks[t].want, h)
    BY <1>2, <2>2 DEF With, Registered
  <2> QED BY <2>1, <2>2
<1>3. ASSUME NEW t \in DOMAIN tasks, NEW x \in tasks[t].gone, client' = Without(client, x) PROVE Registered(c, g)'
  <2>1. c # x
    BY <1>3 DEF Gone
  <2> QED BY <1>3, <2>1 DEF Without, Registered
<1> QED BY <1>1, <1>2, <1>3, ClientAre

\* What the watcher of a slot alone wants is not what an update releases.
LEMMA NotReleased ==
  ASSUME Typed, Shapes, Sources, History, Single, ~overlapped, NEW s \in Slots, NEW w, w = Now[s],
         NEW g, NEW c, OnlyFor(w, g, c), NEW t \in DOMAIN tasks, tasks[t].pc = "release"
  PROVE  g \notin tasks[t].old.globs
<1> SUFFICES ASSUME g \in tasks[t].old.globs PROVE FALSE
  OBVIOUS
<1>1. PICK r \in Slots : Source(t, r)
  BY DEF Sources
<1>2. t = Len(snaps) /\ t \in 2 .. Len(snaps) /\ t \in DOMAIN snaps /\ t - 1 \in DOMAIN snaps
  BY WatcherTypes DEF Single, Typed
<1>3. tasks[t].old # None
  BY DEF Shapes, Shape
<1>4. tasks[t].old = snaps[t - 1][r] /\ snaps[t - 1][r] # snaps[t][r] /\ snaps[t - 1][r] \in Watcher
  BY <1>1, <1>3, WatcherTypes DEF Source
<1>5. tasks[t].old \in Used
  BY <1>2, <1>4 DEF Used
<1>6. tasks[t].old = w
  BY <1>5 DEF OnlyFor
<1>7. snaps[t][s] = w /\ snaps[t - 1][r] = w
  BY <1>2, <1>4, <1>6 DEF Now
<1>8. r = s
  BY <1>2, <1>7 DEF OnlyFor, History, OneSlot
<1> QED BY <1>4, <1>7, <1>8

\* The id of a current watcher's own glob does not become one to unregister.
LEMMA NotGone ==
  ASSUME Typed, Shapes, Sources, History, Answered, Named, Single, ~overlapped, [Next]_vars,
         NEW s \in Slots, NEW w, w = Now[s], NEW g, NEW c, OnlyFor(w, g, c), ~Gone(c)
  PROVE  ~Gone(c)'
<1> SUFFICES ASSUME Gone(c)' PROVE FALSE
  OBVIOUS
<1>1. PICK t \in DOMAIN tasks' : c \in tasks'[t].gone
  BY DEF Gone
<1>2. PICK h \in Globs : t \in DOMAIN tasks /\ ReleaseOld(t) /\ h \in tasks[t].old.globs
                         /\ entries[h].count = 1 /\ entries[h].id = c
  BY <1>1, GoneAre DEF Gone
<1>3. Names(c, h) /\ Names(c, g)
  BY <1>2 DEF Named, Names, OnlyFor
<1>4. g = h
  BY <1>3, IdNamesOne DEF OnlyFor, History
<1> QED BY <1>2, <1>4, NotReleased DEF ReleaseOld

\* What the current update has newly counted, it alone has counted.
OpenOnce == \A t \in DOMAIN tasks, g \in Globs : Open(t, g) => entries[g].count = 1

\* Every step of the one update leaves what it newly counted counted once.
LEMMA OpenKept ==
  ASSUME Typed, Shapes, Sources, History, Answered, Named, Single, ~overlapped, OpenOnce,
         NEW t \in DOMAIN tasks, Steps(t)
  PROVE  OpenOnce'
<1>1. DOMAIN tasks' = DOMAIN tasks /\ DOMAIN tasks = {t}
  BY StepsMove DEF Moved, Single
<1> SUFFICES ASSUME NEW g \in Globs, Open(t, g)' PROVE entries'[g].count = 1
  BY <1>1 DEF OpenOnce
<1>2. Open(t, g) => entries[g].count = 1
  BY DEF OpenOnce
<1>3. entries \in [Globs -> [count : Nat, id : IDs \cup {<<>>}]]
  BY DEF Typed
<1>4. CASE VisitSlot(t)
  <2>1. tasks'[t].fresh = {} /\ tasks'[t].pc # "rollback"
    BY <1>4, VisitDoes
  <2> QED BY <2>1 DEF Open
<1>5. CASE Acquire(t)
  <2>1. PICK h \in tasks[t].todo :
          /\ entries' = [entries EXCEPT ![h] =
               [count |-> entries[h].count + 1,
                id |-> IF entries[h].count = 0 THEN GlobID(tasks[t].want, h) ELSE entries[h].id]]
          /\ tasks'[t].fresh = IF entries[h].count = 0 THEN tasks[t].fresh \cup {h} ELSE tasks[t].fresh
          /\ tasks'[t].pc \in {"acquire", "watch", "clear"}
    BY <1>5, AcquireDoes
  <2>2. tasks[t].pc = "acquire" /\ h \notin tasks[t].fresh
    BY <1>5, <2>1 DEF Acquire, Shapes, Shape
  <2>3. g \in tasks'[t].fresh
    BY <2>1 DEF Open
  <2>4. CASE g = h
    BY <1>3, <2>1, <2>2, <2>3, <2>4
  <2>5. CASE g # h
    <3>1. Open(t, g)
      BY <2>1, <2>2, <2>3, <2>5 DEF Open
    <3> QED BY <1>2, <1>3, <2>1, <2>5, <3>1
  <2> QED BY <2>4, <2>5
<1>6. CASE WatchFiles(t)
  <2>1. /\ tasks[t].pc = "watch" /\ tasks'[t].fresh = tasks[t].fresh
        /\ tasks'[t].pc = "rollback" => tasks'[t].todo = tasks'[t].fresh
    BY <1>6, WatchDoes
  <2>2. Open(t, g)
    BY <2>1 DEF Open
  <2> QED BY <1>2, <1>6, <2>2 DEF WatchFiles, registry
<1>7. CASE Rollback(t)
  <2>1. PICK h \in tasks[t].todo : entries' = Released(h) /\ tasks'[t].todo = tasks[t].todo \ {h}
                                   /\ tasks[t].pc = "rollback" /\ tasks'[t].pc = "rollback"
    BY <1>7, RollbackDoes
  <2>2. g # h /\ Open(t, g)
    BY <2>1 DEF Open
  <2> QED BY <1>2, <1>3, <2>1, <2>2 DEF Released
<1>8. CASE MarkPending(t) \/ ClearPending(t)
  <2>1. tasks'[t].pc \in {"visit", "release"}
    BY <1>8, MarkDoes, ClearDoes DEF Turns
  <2> QED BY <2>1 DEF Open
<1>9. CASE ReleaseOld(t)
  <2>1. tasks'[t].pc \in {"visit", "release", "unwatch"}
    BY <1>9, ReleaseDoes
  <2> QED BY <2>1 DEF Open
<1>10. CASE UnwatchFiles(t)
  <2>1. tasks'[t].pc \in {"visit", "unwatch"}
    BY <1>10, UnwatchDoes
  <2> QED BY <2>1 DEF Open
<1> QED BY <1>4, <1>5, <1>6, <1>7, <1>8, <1>9, <1>10 DEF Steps

\* What is remembered of a glob of w while t is the one task.
Memory(t, w, g, c) ==
  /\ entries[g].count > 0 => Registered(c, g) \/ Unsettled(t, g)
  /\ w.id \in pending \/ Registered(c, g) \/ Coming(w)
  /\ HasAcquired(t, w, g) => entries[g].count > 0

\* Beginning the slot of w takes up w.
LEMMA VisitRemembers ==
  ASSUME Typed, Shapes, Sources, History, Answered, Named, NEW t, DOMAIN tasks = {t}, VisitSlot(t),
         NEW w, NEW g, NEW c, OnlyFor(w, g, c), Memory(t, w, g, c), Registered(c, g) => Registered(c, g)'
  PROVE  Memory(t, w, g, c)'
<1>1. PICK s \in tasks[t].slots :
        LET r    == tasks'[t]
            old  == snaps[t - 1][s]
            want == snaps[t][s]
        IN  /\ r.slots = tasks[t].slots \ {s}
            /\ \/ r.pc = "visit" /\ (old = want \/ \A h : ~HasGlob(old, h) /\ ~HasGlob(want, h))
               \/ r.pc = "acquire" /\ r.want = want /\ r.todo = want.globs
               \/ r.pc = "release" /\ \A h : ~HasGlob(want, h)
  BY VisitDoes
<1>2. Moved(t) /\ snaps' = snaps /\ tasks[t].pc = "visit" /\ entries' = entries /\ pending' = pending
  BY VisitDoes DEF VisitSlot, registry
<1>3. ~Unsettled(t, g)
  BY <1>2 DEF Unsettled, Open
<1>4. \A x, y, z : Brings(x, y, z)' <=> Brings(x, y, z)
  BY <1>2 DEF Brings, Changes
<1>5. Coming(w) => Coming(w)'
  <2>1. SUFFICES ASSUME Coming(w) PROVE Coming(w)'
    OBVIOUS
  <2>2. PICK q \in tasks[t].slots : Brings(t, q, w)
    BY <1>2, <2>1 DEF Coming, Updating
  <2>3. CASE q # s
    BY <1>1, <1>2, <1>4, <2>2, <2>3 DEF Coming, Moved
  <2>4. CASE q = s
    <3>1. HasGlob(snaps[t][s], g) /\ snaps[t][s] = w /\ snaps[t - 1][s] # w
      BY <2>2, <2>4, NoneAssumption DEF Brings, Changes, HasGlob, OnlyFor
    <3>2. tasks'[t].pc = "acquire" /\ tasks'[t].want = w
      BY <1>1, <3>1
    <3> QED BY <1>2, <3>2 DEF Coming, Moved, Updating
  <2> QED BY <2>3, <2>4
<1>6. ~HasAcquired(t, w, g)'
  BY <1>1 DEF HasAcquired, Acquiring, OnlyFor
<1> QED BY <1>2, <1>3, <1>5, <1>6 DEF Memory

\* What is newly counted is to be registered.
LEMMA AcquireRemembers ==
  ASSUME Typed, Shapes, Sources, History, Answered, Named, NEW t, DOMAIN tasks = {t}, Acquire(t),
         NEW w, NEW g, NEW c, OnlyFor(w, g, c), Memory(t, w, g, c), Registered(c, g) => Registered(c, g)'
  PROVE  Memory(t, w, g, c)'
<1>1. PICK h \in tasks[t].todo :
        /\ entries' = [entries EXCEPT ![h] =
             [count |-> entries[h].count + 1,
              id |-> IF entries[h].count = 0 THEN GlobID(tasks[t].want, h) ELSE entries[h].id]]
        /\ tasks'[t].fresh = IF entries[h].count = 0 THEN tasks[t].fresh \cup {h} ELSE tasks[t].fresh
        /\ \/ tasks'[t].pc = "acquire" /\ tasks'[t].todo = tasks[t].todo \ {h}
           \/ tasks'[t].pc = "watch" /\ tasks[t].todo = {h} /\ tasks'[t].todo = tasks'[t].fresh
           \/ tasks'[t].pc = "clear" /\ tasks[t].todo = {h} /\ tasks'[t].fresh = {}
  BY AcquireDoes
<1>2. Moved(t) /\ SameUpdate(tasks[t], tasks'[t]) /\ tasks[t].pc = "acquire" /\ snaps' = snaps /\ pending' = pending
  BY AcquireDoes DEF Acquire
<1>3. entries \in [Globs -> [count : Nat, id : IDs \cup {<<>>}]] /\ g \in Globs
  BY DEF Typed, OnlyFor
<1>4. \A x, y, z : Brings(x, y, z)' <=> Brings(x, y, z)
  BY <1>2 DEF Brings, Changes
<1>5. Coming(w) => Coming(w)'
  BY <1>1, <1>2, <1>4 DEF Coming, Moved, SameUpdate, Updating
<1>6. entries'[g].count > 0 => Registered(c, g)' \/ Unsettled(t, g)'
  <2>1. ASSUME g \in tasks'[t].fresh PROVE Unsettled(t, g)'
    BY <1>1, <2>1 DEF Unsettled, Open
  <2>2. entries'[g].count > 0 => entries[g].count > 0 \/ g \in tasks'[t].fresh
    BY <1>1, <1>3
  <2>3. Unsettled(t, g) => g \in tasks'[t].fresh
    BY <1>1, <1>2 DEF Unsettled, Open
  <2> QED BY <2>1, <2>2, <2>3 DEF Memory
<1>7. HasAcquired(t, w, g)' => entries'[g].count > 0
  <2>1. CASE g = h
    BY <1>1, <1>3, <2>1
  <2>2. CASE g # h
    <3>1. HasAcquired(t, w, g)' => HasAcquired(t, w, g)
      BY <1>1, <1>2, <2>2 DEF HasAcquired, Acquiring, SameUpdate
    <3> QED BY <1>1, <1>3, <2>2, <3>1 DEF Memory
  <2> QED BY <2>1, <2>2
<1> QED BY <1>2, <1>5, <1>6, <1>7 DEF Memory

\* What is not registered after the last call is rolled back.
LEMMA WatchRemembers ==
  ASSUME Typed, Shapes, Sources, History, Answered, Named, NEW t, DOMAIN tasks = {t}, WatchFiles(t),
         NEW w, NEW g, NEW c, OnlyFor(w, g, c), Memory(t, w, g, c), Registered(c, g) => Registered(c, g)'
  PROVE  Memory(t, w, g, c)'
<1>1. PICK h \in tasks[t].todo :
        /\ \/ client' = With(client, GlobID(tasks[t].want, h), h) /\ tasks'[t].failed = tasks[t].failed
           \/ tasks'[t].failed
        /\ \/ tasks'[t].pc = "watch" /\ tasks'[t].todo = tasks[t].todo \ {h}
           \/ tasks'[t].pc = "rollback" /\ tasks'[t].todo = tasks'[t].fresh
           \/ tasks'[t].pc = "clear" /\ tasks[t].todo = {h} /\ ~tasks'[t].failed
  BY WatchDoes
<1>2. /\ Moved(t) /\ SameUpdate(tasks[t], tasks'[t]) /\ tasks[t].pc = "watch" /\ snaps' = snaps
      /\ pending' = pending /\ entries' = entries /\ tasks'[t].fresh = tasks[t].fresh
      /\ tasks[t].fresh \subseteq tasks[t].want.globs
  BY WatchDoes DEF WatchFiles, registry
<1>3. tasks[t].want \in Used
  BY <1>2, UsedWant DEF Updating
<1>4. \A x, y, z : Brings(x, y, z)' <=> Brings(x, y, z)
  BY <1>2 DEF Brings, Changes
<1>5. Coming(w) => Coming(w)'
  BY <1>1, <1>2, <1>4 DEF Coming, Moved, SameUpdate, Updating
<1>6. Unsettled(t, g) => Registered(c, g)' \/ Unsettled(t, g)'
  <2>1. SUFFICES ASSUME Unsettled(t, g) PROVE Registered(c, g)' \/ Unsettled(t, g)'
    OBVIOUS
  <2>2. g \in tasks[t].fresh /\ (g \in tasks[t].todo \/ tasks[t].failed)
    BY <1>2, <2>1 DEF Unsettled, Open
  <2>3. CASE tasks'[t].pc = "rollback"
    BY <1>1, <1>2, <2>2, <2>3 DEF Unsettled, Open
  <2>4. CASE tasks'[t].pc = "watch" /\ tasks'[t].failed
    BY <1>2, <2>2, <2>4 DEF Unsettled, Open
  <2>5. CASE ~tasks'[t].failed /\ tasks'[t].pc \in {"watch", "clear"}
    <3>1. client' = With(client, GlobID(tasks[t].want, h), h) /\ ~tasks[t].failed
      BY <1>1, <2>5
    <3>2. g \in tasks[t].todo
      BY <2>2, <3>1
    <3>3. CASE g = h
      <4>1. tasks[t].want = w
        BY <1>2, <1>3, <2>2 DEF OnlyFor
      <4>2. client' = With(client, c, g)
        BY <3>1, <3>3, <4>1 DEF OnlyFor
      <4> QED BY <4>2 DEF With, Registered
    <3>4. CASE g # h
      BY <1>1, <1>2, <2>2, <2>5, <3>2, <3>4 DEF Unsettled, Open
    <3> QED BY <3>3, <3>4
  <2> QED BY <1>1, <2>3, <2>4, <2>5
<1>7. HasAcquired(t, w, g)' => HasAcquired(t, w, g)
  BY <1>1, <1>2 DEF HasAcquired, Acquiring, SameUpdate
<1> QED BY <1>2, <1>5, <1>6, <1>7 DEF Memory

\* What is rolled back is no longer counted.
LEMMA RollbackRemembers ==
  ASSUME Typed, Shapes, Sources, History, Answered, Named, NEW t, DOMAIN tasks = {t}, Rollback(t), OpenOnce,
         NEW w, NEW g, NEW c, OnlyFor(w, g, c), Memory(t, w, g, c), Registered(c, g) => Registered(c, g)'
  PROVE  Memory(t, w, g, c)'
<1>1. PICK h \in tasks[t].todo : h \in Globs /\ entries' = Released(h) /\ tasks'[t].todo = tasks[t].todo \ {h}
  BY RollbackDoes
<1>2. /\ Moved(t) /\ SameUpdate(tasks[t], tasks'[t]) /\ tasks[t].pc = "rollback" /\ tasks'[t].pc = "rollback"
      /\ snaps' = snaps /\ pending' = pending
  BY RollbackDoes DEF Rollback
<1>3. entries \in [Globs -> [count : Nat, id : IDs \cup {<<>>}]] /\ g \in Globs
  BY DEF Typed, OnlyFor
<1>4. \A x, y, z : Brings(x, y, z)' <=> Brings(x, y, z)
  BY <1>2 DEF Brings, Changes
<1>5. Coming(w) => Coming(w)'
  BY <1>2, <1>4 DEF Coming, Moved, SameUpdate, Updating
<1>6. ~HasAcquired(t, w, g)'
  BY <1>2 DEF HasAcquired
<1>7. entries'[g].count > 0 => Registered(c, g)' \/ Unsettled(t, g)'
  <2>1. CASE g = h
    <3>1. Open(t, g)
      BY <1>1, <1>2, <2>1 DEF Open
    <3>2. entries[g].count = 1
      BY <1>3, <3>1 DEF OpenOnce
    <3> QED BY <1>1, <1>3, <2>1, <3>2 DEF Released, Absent
  <2>2. CASE g # h
    <3>1. entries'[g] = entries[g]
      BY <1>1, <1>3, <2>2 DEF Released
    <3>2. Unsettled(t, g) => Unsettled(t, g)'
      BY <1>1, <1>2, <2>2 DEF Unsettled, Open
    <3> QED BY <3>1, <3>2 DEF Memory
  <2> QED BY <2>1, <2>2
<1> QED BY <1>2, <1>5, <1>6, <1>7 DEF Memory

\* The update is settled: what was newly counted is registered, or the watcher is pending.
LEMMA SettleRemembers ==
  ASSUME Typed, Shapes, Sources, History, Answered, Named, NEW t, DOMAIN tasks = {t},
         MarkPending(t) \/ ClearPending(t),
         NEW w, NEW g, NEW c, OnlyFor(w, g, c), Memory(t, w, g, c), Registered(c, g) => Registered(c, g)'
  PROVE  Memory(t, w, g, c)'
<1>1. /\ Turns(t) /\ tasks[t].pc \in Updating /\ tasks'[t].pc \in {"visit", "release"}
      /\ (MarkPending(t) => tasks[t].pc = "rollback" /\ tasks[t].todo = {}) /\ (ClearPending(t) => tasks[t].pc = "clear")
  BY MarkDoes, ClearDoes DEF Turns, Updating
<1>2. Moved(t) /\ tasks'[t].slots = tasks[t].slots /\ snaps' = snaps /\ entries' = entries
  BY <1>1 DEF Turns, MarkPending, ClearPending
<1>3. \A x, y, z : Brings(x, y, z)' <=> Brings(x, y, z)
  BY <1>2 DEF Brings, Changes
<1>4. ~Unsettled(t, g)
  BY <1>1 DEF Unsettled, Open
<1>5. ~HasAcquired(t, w, g)'
  BY <1>1 DEF HasAcquired
<1>6. tasks[t].want \in Used /\ tasks[t].want \in Watcher
  BY <1>1, UsedWant
<1>7. Coming(w) => Coming(w)' \/ tasks[t].want = w
  BY <1>2, <1>3 DEF Coming, Moved
<1>8. CASE MarkPending(t)
  <2>1. pending' = pending \cup {tasks[t].want.id}
    BY <1>8 DEF MarkPending
  <2> QED BY <1>2, <1>4, <1>5, <1>7, <2>1 DEF Memory
<1>9. CASE ClearPending(t)
  <2>1. pending' = pending \ {tasks[t].want.id}
    BY <1>9 DEF ClearPending
  <2>2. CASE tasks[t].want = w
    <3>1. HasAcquired(t, w, g)
      BY <1>1, <1>9, <2>2 DEF HasAcquired, Acquiring
    <3>2. Registered(c, g)
      BY <1>4, <3>1 DEF Memory
    <3> QED BY <1>2, <1>5, <3>2 DEF Memory
  <2>3. CASE tasks[t].want # w
    <3>1. tasks[t].want.id # w.id
      BY <1>6, <2>3 DEF OnlyFor, History, IdsUnique
    <3> QED BY <1>2, <1>4, <1>5, <1>7, <2>1, <2>3, <3>1 DEF Memory
  <2> QED BY <2>2, <2>3
<1> QED BY <1>8, <1>9

\* Releasing and unregistering concern other globs.
LEMMA DropRemembers ==
  ASSUME Typed, Shapes, Sources, History, Answered, Named, NEW t, DOMAIN tasks = {t},
         NEW w, NEW g, NEW c, OnlyFor(w, g, c), Memory(t, w, g, c), Registered(c, g) => Registered(c, g)',
         UnwatchFiles(t) \/ (ReleaseOld(t) /\ g \notin tasks[t].old.globs)
  PROVE  Memory(t, w, g, c)'
<1>1. /\ Moved(t) /\ tasks'[t].slots = tasks[t].slots /\ snaps' = snaps /\ pending' = pending
      /\ tasks[t].pc \in {"release", "unwatch"} /\ tasks'[t].pc \in {"visit", "release", "unwatch"}
  <2>1. CASE UnwatchFiles(t)
    BY <2>1, UnwatchDoes DEF UnwatchFiles, registry
  <2>2. CASE ReleaseOld(t)
    <3>1. /\ Moved(t) /\ tasks'[t].slots = tasks[t].slots /\ tasks[t].pc = "release"
          /\ tasks'[t].pc \in {"visit", "release", "unwatch"}
      BY <2>2, ReleaseDoes
    <3> QED BY <2>2, <3>1 DEF ReleaseOld
  <2> QED BY <2>1, <2>2
<1>2. entries'[g] = entries[g]
  <2>1. CASE UnwatchFiles(t)
    BY <2>1 DEF UnwatchFiles, registry
  <2>2. CASE ReleaseOld(t) /\ g \notin tasks[t].old.globs
    <3>1. PICK h \in tasks[t].todo : h \in tasks[t].old.globs /\ entries' = Released(h)
      BY <2>2, ReleaseDoes
    <3> QED BY <2>2, <3>1 DEF Released, Typed, OnlyFor
  <2> QED BY <2>1, <2>2
<1>3. \A x, y, z : Brings(x, y, z)' <=> Brings(x, y, z)
  BY <1>1 DEF Brings, Changes
<1>4. ~Unsettled(t, g) /\ ~HasAcquired(t, w, g)'
  BY <1>1 DEF Unsettled, Open, HasAcquired
<1>5. Coming(w) => Coming(w)'
  BY <1>1, <1>3 DEF Coming, Moved, Updating
<1> QED BY <1>1, <1>2, <1>4, <1>5 DEF Memory

\* Every step of the one update remembers the glob.
LEMMA StepRemembers ==
  ASSUME Typed, Shapes, Sources, History, Answered, Named, Single, ~overlapped, OpenOnce, [Next]_vars,
         NEW t \in DOMAIN tasks, Steps(t), NEW s \in Slots, NEW w, w = Now[s], NEW g, NEW c, OnlyFor(w, g, c),
         ~Gone(c), Memory(t, w, g, c)
  PROVE  Memory(t, w, g, c)' /\ ~Gone(c)'
<1>1. DOMAIN tasks = {t}
  BY DEF Single
<1>2. Registered(c, g) => Registered(c, g)'
  BY RegisteredStays
<1>3. ~Gone(c)'
  BY NotGone
<1>4. ReleaseOld(t) => g \notin tasks[t].old.globs
  BY NotReleased DEF ReleaseOld
<1>5. CASE VisitSlot(t)
  BY <1>1, <1>2, <1>3, <1>5, VisitRemembers
<1>6. CASE Acquire(t)
  BY <1>1, <1>2, <1>3, <1>6, AcquireRemembers
<1>7. CASE WatchFiles(t)
  BY <1>1, <1>2, <1>3, <1>7, WatchRemembers
<1>8. CASE Rollback(t)
  BY <1>1, <1>2, <1>3, <1>8, RollbackRemembers
<1>9. CASE MarkPending(t) \/ ClearPending(t)
  BY <1>1, <1>2, <1>3, <1>9, SettleRemembers
<1>10. CASE ReleaseOld(t) \/ UnwatchFiles(t)
  BY <1>1, <1>2, <1>3, <1>4, <1>10, DropRemembers
<1> QED BY <1>5, <1>6, <1>7, <1>8, <1>9, <1>10 DEF Steps

\* An update that has ended leaves a glob registered or its watcher pending.
LEMMA EndRemembers ==
  ASSUME Typed, Shapes, Sources, History, Answered, Named, Single, ~overlapped, Failing,
         NEW t \in DOMAIN tasks, EndTask(t)
  PROVE  Failing'
<1>1. DOMAIN tasks = {t} /\ DOMAIN tasks' = {} /\ tasks[t].pc = "visit" /\ tasks[t].slots = {}
  <2>1. DOMAIN tasks = {t}
    BY DEF Single
  <2>2. DOMAIN tasks' = DOMAIN tasks \ {t} /\ tasks[t].pc = "visit" /\ tasks[t].slots = {}
    BY EndDoes
  <2> QED BY <2>1, <2>2
<1>2. snaps' = snaps /\ entries' = entries /\ pending' = pending /\ client' = client
  BY DEF EndTask, registry
<1>3. \A t1 \in DOMAIN tasks', g \in Globs : Open(t1, g)' => entries'[g].count = 1
  BY <1>1
<1>4. ASSUME NEW s \in Slots, NEW g \in Globs, NEW w, w = Now[s], w # None, Sole(w, g) PROVE Remembered(w, g)'
  <2>1. Remembered(w, g)
    BY <1>4 DEF Failing
  <2>2. ~Coming(w) /\ ~Unsettled(t, g)
    BY <1>1 DEF Coming, Unsettled, Open, Updating
  <2>3. Registered(GlobID(w, g), g)' <=> Registered(GlobID(w, g), g)
    BY <1>2 DEF Registered, GlobID
  <2>4. ~Gone(GlobID(w, g))'
    BY <1>1 DEF Gone, GlobID
  <2> QED BY <1>1, <1>2, <2>1, <2>2, <2>3, <2>4 DEF Remembered
<1>5. Now' = Now /\ \A w, g : Sole(w, g)' <=> Sole(w, g)
  BY <1>2 DEF Now, Sole, Used
<1> QED BY <1>3, <1>4, <1>5 DEF Failing

\* A snapshot that is adopted while no update runs has watchers that are remembered, or come.
LEMMA AdoptedRemembers ==
  ASSUME Typed, Shapes, Sources, History, Answered, Named, ~overlapped, Failing, UpdateSnapshot, ~overlapped'
  PROVE  Failing'
<1>1. PICK n : n = Len(snaps) + 1 /\ Adopted /\ AdoptedAs(n)
  BY UpdateDoes DEF Adopted
<1>2. DOMAIN tasks = {} /\ entries' = entries /\ pending' = pending /\ client' = client
  BY DEF UpdateSnapshot, registry
<1>3. DOMAIN tasks' = {n} /\ tasks'[n].pc = "visit" /\ tasks'[n].slots = Slots /\ tasks'[n].gone = {}
  BY <1>1, <1>2 DEF AdoptedAs
<1>4. \A g : ~Open(n, g)'
  BY <1>3 DEF Open, Shapes, Shape
<1>5. ASSUME NEW s \in Slots, NEW g \in Globs, NEW w, w = Now'[s], w # None, Sole(w, g)'
      PROVE  Remembered(w, g)'
  <2>1. w = snaps'[n][s] /\ w \in Used' /\ w \in Watcher /\ \A v \in Used' : g \in v.globs => v = w
    <3>1. Now' = snaps'[n]
      BY <1>1, Before DEF Now
    <3> QED BY <1>5, <3>1 DEF Sole, Used
  <2>2. ~HasAcquired(n, w, g)'
    BY <1>3 DEF HasAcquired
  <2>3. ~Gone(GlobID(w, g))'
    BY <1>3 DEF Gone, GlobID
  <2>4. CASE Now[s] = w
    <3>1. Len(snaps) \in DOMAIN snaps
      BY <1>1, Before
    <3>2. w \in Used /\ Used \subseteq Used'
      BY <1>1, <2>1, <2>4, <3>1, NewWatchers DEF Used, Now
    <3>3. g \in w.globs
      BY <1>5 DEF Sole
    <3>4. Sole(w, g)
      BY <2>1, <3>2, <3>3 DEF Sole
    <3>5. Remembered(w, g)
      BY <1>5, <2>4, <3>4 DEF Failing
    <3>6. ~Coming(w)
      BY <1>2 DEF Coming
    <3>7. Registered(GlobID(w, g), g)' <=> Registered(GlobID(w, g), g)
      BY <1>2 DEF Registered, GlobID
    <3> QED BY <1>2, <1>3, <2>2, <2>3, <3>5, <3>6, <3>7 DEF Remembered
  <2>5. CASE Now[s] # w
    <3>1. Arrives(s, w)
      BY <1>1, <2>1, <2>5 DEF Arrives
    <3>2. Newcomer(w)
      BY <1>1, <2>1, <3>1, NewWatchers
    <3>3. g \in w.globs
      BY <1>5 DEF Sole
    <3>4. w.id # 0
      <4>1. History'
        BY <1>1, NewHistory
      <4>2. PICK v \in Used' : v.id # 0 /\ v.globs = w.globs
        BY <2>1, <3>3, <4>1 DEF History, Originals
      <4> QED BY <2>1, <3>3, <4>2
    <3>5. w \notin Used /\ Used \subseteq Used'
      BY <1>1, <3>2, <3>4, NewIds, NewWatchers DEF History
    <3>6. entries[g].count = 0
      <4>1. ASSUME entries[g].count > 0 PROVE FALSE
        <5>1. PICK v \in Used : g \in v.globs
          BY <4>1 DEF Named, Names
        <5> QED BY <2>1, <3>5, <5>1
      <4> QED BY <4>1 DEF Typed
    <3>7. Coming(w)'
      <4>1. Brings(n, s, w)'
        BY <1>1, <3>1, Before
      <4> QED BY <1>3, <4>1 DEF Coming
    <3> QED BY <1>2, <1>3, <2>2, <2>3, <3>6, <3>7 DEF Remembered
  <2> QED BY <2>4, <2>5
<1> QED BY <1>3, <1>4, <1>5 DEF Failing

\* In order, every step keeps the memory of every current watcher's own globs.
LEMMA FailingKept ==
  ASSUME Typed, Shapes, Sources, History, Answered, Named, Single, Failing, [Next]_vars
  PROVE  Failing'
<1> SUFFICES ASSUME ~overlapped' PROVE Failing'
  BY DEF Failing
<1>1. ~overlapped
  BY OnlyMore
<1>2. CASE UNCHANGED vars
  BY <1>2 DEF vars, registry, Failing, Open, Now, Sole, Used, Remembered, Gone, Registered, Unsettled, Coming, Brings,
              Changes, HasAcquired, Acquiring
<1>3. CASE UpdateSnapshot
  BY <1>1, <1>3, AdoptedRemembers
<1>4. ASSUME NEW t \in DOMAIN tasks, EndTask(t) PROVE Failing'
  BY <1>1, <1>4, EndRemembers
<1>5. ASSUME NEW t \in DOMAIN tasks, Steps(t) PROVE Failing'
  <2>1. OpenOnce
    BY <1>1 DEF Failing, OpenOnce
  <2>2. OpenOnce'
    BY <1>1, <1>5, <2>1, OpenKept
  <2>3. snaps' = snaps /\ DOMAIN tasks' = DOMAIN tasks /\ DOMAIN tasks = {t}
    BY <1>1, <1>5, StepsMove DEF Moved, Single
  <2>4. ASSUME NEW s \in Slots, NEW g \in Globs, NEW w, w = Now[s], w # None, Sole(w, g) PROVE Remembered(w, g)'
    <3>1. Remembered(w, g)
      BY <1>1, <2>4 DEF Failing
    <3>2. ASSUME NEW c, c = GlobID(w, g) PROVE Memory(t, w, g, c)' /\ ~Gone(c)'
      <4>1. OnlyFor(w, g, c)
        BY <2>4, <3>2, SoleIs
      <4>2. ~Gone(c) /\ Memory(t, w, g, c)
        BY <2>3, <3>1, <3>2 DEF Remembered, Memory
      <4> QED BY <1>1, <1>5, <2>1, <2>4, <4>1, <4>2, StepRemembers
    <3>3. \A c : c = GlobID(w, g) => Memory(t, w, g, c)' /\ ~Gone(c)'
      BY <3>2
    <3> QED BY <2>3, <3>3 DEF Remembered, Memory, Gone, Registered, GlobID
  <2>5. Now' = Now /\ \A w, g : Sole(w, g)' <=> Sole(w, g)
    BY <2>3 DEF Now, Sole, Used
  <2> QED BY <2>2, <2>4, <2>5 DEF Failing, OpenOnce
<1> QED BY <1>2, <1>3, <1>4, <1>5 DEF Next, TaskStep, Steps

-----------------------------------------------------------------------------
(* The invariant.                                                               *)

\* The types hold initially.
LEMMA InitTyped == ASSUME Init PROVE Typed
<1>1. snaps \in Seq([Slots -> Watcher \cup {None}]) /\ Len(snaps) = 1
  BY DEF Init
<1>2. /\ lastID \in 0 .. Len(snaps) - 1 /\ DOMAIN tasks = {} /\ tasks \in [DOMAIN tasks -> Tasks]
      /\ pending \subseteq 0 .. lastID /\ known \subseteq IDs
  BY <1>1 DEF Init
<1>3. entries \in [Globs -> [count : Nat, id : IDs \cup {<<>>}]]
  BY DEF Init, Absent
<1>4. DOMAIN client = {} /\ client \in [DOMAIN client -> Globs]
  BY DEF Init
<1>5. mappers \in [recorded : SUBSET Slots, snap : Nat, active : BOOLEAN, client : SUBSET Slots]
  BY DEF Init
<1>6. failures \in 0 .. MaxFailures /\ overlapped \in BOOLEAN
  <2>1. failures = 0 /\ overlapped = FALSE /\ MaxFailures \in Nat
    BY BoundsAssumption DEF Init
  <2>2. 0 \in 0 .. MaxFailures
    BY <2>1
  <2> QED BY <2>1, <2>2
<1>7. Len(snaps) \in 1 .. MaxUpdates + 1
  BY <1>1, BoundsAssumption
<1> QED BY <1>1, <1>2, <1>3, <1>4, <1>5, <1>6, <1>7 DEF Typed

\* Nothing is watched, wanted or under way initially.
LEMMA InitInv == Init => IInv
<1> SUFFICES ASSUME Init PROVE IInv
  OBVIOUS
<1>1. Typed
  BY InitTyped
<1>2. DOMAIN tasks = {} /\ DOMAIN client = {} /\ Len(snaps) = 1 /\ DOMAIN snaps = {1} /\ \A s \in Slots : snaps[1][s] = None
  BY DEF Init
<1>3. Used = {}
  BY <1>2, NoneAssumption DEF Used
<1>4. \A n, s : ~Changes(n, s)
  BY <1>2 DEF Changes
<1>5. History
  BY <1>2, <1>3, <1>4 DEF History, IdsBelow, IdsTell, IdsUnique, OneSlot, BroughtOnce, GlobsKept, Originals, Brings
<1>6. Shapes /\ Sources /\ Single
  BY <1>2 DEF Shapes, Sources, Single
<1>7. Answered
  BY <1>2 DEF Answered, Init
<1>8. \A g \in Globs : entries[g].count = 0
  BY DEF Init, Absent
<1>9. Counted
  <2>1. ASSUME NEW g \in Globs PROVE Due(g) = 0
    <3>1. ToAcquire(g) = {} /\ ToGiveUp(g) = {}
      BY <1>2 DEF ToAcquire, ToGiveUp
    <3>2. WantedBy(g) = {}
      BY <1>2 DEF WantedBy, Now
    <3>3. Cardinality({}) = 0
      BY FS_EmptySet
    <3> QED BY <3>1, <3>2, <3>3 DEF Due
  <2> QED BY <1>8, <2>1 DEF Counted
<1>10. Named
  BY <1>2, <1>8 DEF Named
<1>11. Unique /\ Exact
  BY <1>2, <1>3, <1>8 DEF Unique, Exact, Gone
<1>12. Failing
  BY <1>2, <1>3 DEF Failing, Sole
<1>13. Mapped
  <2>1. Len(snaps) = 1 /\ mappers = [recorded |-> {}, snap |-> 0, active |-> FALSE, client |-> {}]
    BY <1>2 DEF Init
  <2>2. /\ mappers.snap = 0 /\ mappers.recorded = {} /\ mappers.client = {} /\ mappers.active = FALSE
        /\ 2 .. Len(snaps) = {}
    BY <2>1
  <2>3. mappers.active = (mappers.recorded # {})
    BY <2>2
  <2>4. mappers.snap <= Len(snaps)
    BY <2>1, <2>2
  <2> QED BY <2>2, <2>3, <2>4 DEF Mapped
<1> QED BY <1>1, <1>5, <1>6, <1>7, <1>9, <1>10, <1>11, <1>12, <1>13 DEF IInv

\* Every step keeps the invariant.
LEMMA NextInv == IInv /\ [Next]_vars => IInv'
<1> SUFFICES ASSUME IInv, [Next]_vars PROVE IInv'
  OBVIOUS
<1>1. /\ Typed /\ Shapes /\ Sources /\ History /\ Answered /\ Single /\ Counted /\ Named /\ Unique /\ Exact
      /\ Failing /\ Mapped
  BY DEF IInv
<1>2. Typed' /\ Shapes'
  BY <1>1, TypesKept
<1>3. Sources'
  BY <1>1, SourcesKept
<1>4. History' /\ Answered' /\ Single' /\ Mapped'
  BY <1>1, HistoryKept, AnsweredKept, SingleKept, MappedKept
<1>5. Counted'
  BY <1>1, CountedKept
<1>6. Named'
  BY <1>1, NamedKept
<1>7. Unique'
  BY <1>1, UniqueKept
<1>8. Exact'
  BY <1>1, ExactKept
<1>9. Failing'
  BY <1>1, FailingKept
<1> QED BY <1>2, <1>3, <1>4, <1>5, <1>6, <1>7, <1>8, <1>9 DEF IInv

\* The inductive invariant holds in every reachable state.
LEMMA InvAlways == Spec => []IInv
  BY InitInv, NextInv, PTL DEF Spec

-----------------------------------------------------------------------------
(* What follows from it.                                                        *)

\* Once every update has ended, what is due is what is wanted.
LEMMA QuietDue ==
  ASSUME Typed, Quiet, NEW g
  PROVE  /\ Due(g) = Cardinality(WantedBy(g)) /\ Due(g) \in Nat
         /\ Due(g) > 0 <=> WantedBy(g) # {}
<1>1. DOMAIN tasks = {}
  BY DEF Quiet
<1>2. ToAcquire(g) = {} /\ ToGiveUp(g) = {}
  BY <1>1 DEF ToAcquire, ToGiveUp
<1>3. Cardinality({}) = 0
  BY FS_EmptySet
<1>4. IsFiniteSet(WantedBy(g)) /\ Cardinality(WantedBy(g)) \in Nat
  BY FiniteLeft
<1>5. Due(g) = Cardinality(WantedBy(g))
  BY <1>2, <1>3, <1>4 DEF Due
<1>6. Cardinality(WantedBy(g)) = 0 <=> WantedBy(g) = {}
  BY <1>4, FS_EmptySet
<1> QED BY <1>4, <1>5, <1>6

\* Once every update has ended, what is counted is registered.
LEMMA QuietCovered ==
  ASSUME IInv, Quiet, Distinct, NEW g \in Globs, entries[g].count > 0
  PROVE  Covered(g)
<1>1. DOMAIN tasks = {}
  BY DEF Quiet
<1>2. Registered(entries[g].id, g)
  BY <1>1 DEF IInv, Unique
<1> QED BY <1>2 DEF Registered, Covered

\* The variables have their types in every reachable state.
THEOREM TypeCorrect == Spec => []TypeOK
<1>1. IInv => TypeOK
  BY DEF IInv, Typed, TypeOK
<1> QED BY <1>1, InvAlways, PTL

\* As long as no client call has failed, once the updates of all adopted snapshots have
\* ended, in whatever order, the registry counts at least those who want a glob; and the
\* client watches it if no watcher was cloned with the globs of its original.
THEOREM CoveredAlways == Spec => []CoveredIfAnswered
<1>1. ASSUME IInv PROVE CoveredIfAnswered
  <2> SUFFICES ASSUME Quiet, failures = 0, NEW g \in Globs, WantedBy(g) # {}
               PROVE  /\ entries[g].count >= Cardinality(WantedBy(g))
                      /\ NoneRecloned => Covered(g)
    BY DEF CoveredIfAnswered
  <2>1. Typed /\ Counted
    BY <1>1 DEF IInv
  <2>2. Due(g) = Cardinality(WantedBy(g)) /\ Due(g) \in Nat /\ Due(g) > 0
    BY <2>1, QuietDue
  <2>3. entries[g].count >= Due(g) /\ entries[g].count \in Nat
    BY <2>1 DEF Counted, Typed
  <2>4. entries[g].count > 0
    BY <2>2, <2>3
  <2>5. NoneRecloned => Covered(g)
    BY <1>1, <2>4, QuietCovered DEF Distinct
  <2> QED BY <2>2, <2>3, <2>5
<1> QED BY <1>1, InvAlways, PTL

\* If also no two updates ran at once, a glob is counted once for each who wants it, and
\* the client watches what is wanted and nothing else, whether or not watchers were
\* recloned.
THEOREM ExactAlways == Spec => []ExactInOrder
<1>1. ASSUME IInv PROVE ExactInOrder
  <2> SUFFICES ASSUME Quiet, failures = 0, ~overlapped, NEW g \in Globs
               PROVE  /\ entries[g].count = Cardinality(WantedBy(g))
                      /\ Covered(g) <=> WantedBy(g) # {}
    BY DEF ExactInOrder
  <2>1. Typed /\ Counted /\ Exact
    BY <1>1 DEF IInv
  <2>2. Due(g) = Cardinality(WantedBy(g)) /\ (Due(g) > 0 <=> WantedBy(g) # {})
    BY <2>1, QuietDue
  <2>3. entries[g].count = Due(g)
    BY <2>1 DEF Counted
  <2>4. entries[g].count > 0 => Covered(g)
    BY <1>1, QuietCovered DEF Distinct
  <2>5. Covered(g) => entries[g].count > 0
    <3>1. DOMAIN tasks = {}
      BY DEF Quiet
    <3> QED BY <2>1, <3>1 DEF Covered, Exact, Gone
  <2> QED BY <2>2, <2>3, <2>4, <2>5
<1> QED BY <1>1, InvAlways, PTL

\* Whatever client calls have failed, if updates have not overlapped: once the last has
\* ended, a glob that only one watcher has ever named, one that is current, is watched by
\* the client or its watcher is pending.
THEOREM FailuresRemembered == Spec => []FailureRemembered
<1>1. ASSUME IInv PROVE FailureRemembered
  <2> SUFFICES ASSUME Quiet, ~overlapped, NEW g \in Globs, NEW s \in WantedBy(g),
                      {snaps[n][r] : n \in DOMAIN snaps, r \in Slots} \cap {w \in Watcher : g \in w.globs} = {Now[s]}
               PROVE  Now[s].id \in pending \/ Covered(g)
    BY DEF FailureRemembered
  <2>1. s \in Slots /\ Now[s] # None
    BY DEF WantedBy
  <2>2. {v \in Used : g \in v.globs} = {Now[s]}
    BY DEF Used
  <2>3. Sole(Now[s], g)
    BY <2>2 DEF Sole
  <2>4. Remembered(Now[s], g)
    BY <1>1, <2>1, <2>3 DEF IInv, Failing
  <2>5. ~Coming(Now[s])
    BY DEF Quiet, Coming
  <2> QED BY <2>4, <2>5 DEF Remembered, Registered, Covered
<1> QED BY <1>1, InvAlways, PTL

\* As long as no client call has failed, once the updates of all adopted snapshots have
\* ended, in whatever order, the extensions that are recorded and that the client
\* synchronizes are those that the current snapshot maps.
THEOREM ExtensionsAlways == Spec => []ExtensionsOfLatest
<1>1. ASSUME IInv PROVE ExtensionsOfLatest
  <2> SUFFICES ASSUME Quiet, failures = 0
               PROVE  mappers.client = Extensions(Now) /\ mappers.recorded = Extensions(Now)
    BY DEF ExtensionsOfLatest
  <2>1. Typed /\ Mapped /\ History
    BY <1>1 DEF IInv
  <2>2. DOMAIN tasks = {}
    BY DEF Quiet
  <2>3. Len(snaps) \in Nat /\ Len(snaps) >= 1 /\ mappers.snap \in Nat /\ mappers.snap <= Len(snaps)
    BY <2>1, BoundsAssumption DEF Typed, Mapped
  <2>4. mappers.client = mappers.recorded
        /\ mappers.recorded = (IF mappers.snap = 0 THEN {} ELSE Extensions(snaps[mappers.snap]))
    BY <2>1 DEF Mapped
  <2>5. CASE Len(snaps) >= 2
    <3>1. mappers.snap = Len(snaps)
      BY <2>1, <2>2, <2>3, <2>5 DEF Mapped
    <3> QED BY <2>4, <2>5, <3>1 DEF Now
  <2>6. CASE Len(snaps) = 1
    <3>1. Extensions(snaps[1]) = {}
      BY <2>1 DEF History, Extensions
    <3>2. mappers.snap = 0 \/ mappers.snap = 1
      BY <2>3, <2>6
    <3> QED BY <2>4, <2>6, <3>1, <3>2 DEF Now
  <2>7. Len(snaps) = 1 \/ Len(snaps) >= 2
    <3>1. \A m \in Nat : m >= 1 => m = 1 \/ m >= 2
      OBVIOUS
    <3> QED BY <2>3, <3>1
  <2> QED BY <2>5, <2>6, <2>7
<1> QED BY <1>1, InvAlways, PTL
=============================================================================
