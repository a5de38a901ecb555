-------------------------- MODULE SnapshotLifecycle --------------------------
(***************************************************************************)
(* Lifetime of the language service's snapshots                            *)
(* (tsc/internal/project/snapshot.go, programcounter.go and the parts of   *)
(* session.go and api.go that create, adopt, hold and release snapshots).  *)
(*                                                                         *)
(* A snapshot is reference counted.  The session owns one reference to its *)
(* current snapshot, request handlers and background tasks own others.  A  *)
(* snapshot holds the programs of its projects in the program counter, and *)
(* a program holds its source files in the parse cache.  Cloning a         *)
(* snapshot may build programs anew; disposing of one releases programs    *)
(* that no other snapshot holds, and with them their files.                *)
(*                                                                         *)
(* A goroutine's step is what it does between two points where another     *)
(* goroutine can see the difference.  Dispose goes project by project.     *)
(***************************************************************************)
EXTENDS Integers, FiniteSets

CONSTANTS
  Handlers,   \* goroutines of client requests
  Tasks,      \* goroutines of the background queue; bound: tasks at once
  Closer,     \* the goroutine that calls Session.Close
  Snapshots,  \* snapshot objects; one is reused only after all forgot it
  Programs,   \* program objects, likewise
  Projects,   \* logical projects of the workspace
  Files,      \* parse cache keys: a file at one content hash
  None,       \* the nil pointer
  Ops,        \* what the handlers may ask for
  MaxBuilds   \* bound: program updates in one clone

ASSUME GoroutinesAssumption ==
  /\ IsFiniteSet(Handlers) /\ IsFiniteSet(Tasks) /\ Handlers \cap Tasks = {}
  /\ Closer \notin Handlers \cup Tasks /\ None \notin Handlers \cup Tasks \cup {Closer}
ASSUME ObjectsAssumption ==
  /\ IsFiniteSet(Snapshots) /\ None \notin Snapshots
  /\ IsFiniteSet(Programs) /\ None \notin Programs /\ IsFiniteSet(Projects)
ASSUME BoundAssumption == MaxBuilds \in Nat
ASSUME OpsAssumption   == Ops \subseteq {"handle", "noref", "api"}

Goroutines == Handlers \cup Tasks \cup {Closer}

VARIABLES
  current,     \* s.snapshot
  refCount,    \* Snapshot.refCount
  programs,    \* project.Program for each project of a snapshot's collection
  apiError,    \* the snapshots whose apiError is not nil
  counter,     \* programCounter.refs, 0 for a program that is not in the map
  files,       \* the source files of a program
  discarded,   \* the programs whose checker pool is discarded
  parseRefs,   \* refCount of the parse cache's entries, 0 for no entry
  updateMu,    \* the holder of s.snapshotUpdateMu
  snapshotMu,  \* the holder of s.snapshotMu, while it holds it over several steps
  closing,     \* Session.Close: "open", "closing" (queue closed, context canceled), "closed"
  go,          \* the goroutines
  orphans,     \* history: programs a clone built and dropped again
  panicked     \* history: some panic of the reference counts was reached

vars == <<current, refCount, programs, apiError, counter, files, discarded,
          parseRefs, updateMu, snapshotMu, closing, go, orphans, panicked>>

PCs == {"idle", "locked", "cloning", "install", "rejected", "recover", "host", "unlock",
        "enqueue", "using", "handoff", "prepared", "release",
        "start", "adopt", "adopted", "lost", "warm", "warmed", "warmEnd", "publish"}

\* What a goroutine is doing: op is its operation, base the snapshot it holds or
\* clones from, new the one it created or was handed, build the programs of the
\* clone under construction, disposing the snapshot it is disposing of and todo
\* the projects of it that are left.
NoPrograms == [p \in Projects |-> None]
Idle == [pc |-> "idle", op |-> "none", base |-> None, new |-> None, build |-> NoPrograms,
         builds |-> 0, fresh |-> {}, disposing |-> None, todo |-> {}]

GoState == [pc : PCs, op : {"none", "handle", "noref", "api", "prepare", "adopt", "warm", "publish", "close"},
            base : Snapshots \cup {None}, new : Snapshots \cup {None},
            build : [Projects -> Programs \cup {None}], builds : 0 .. MaxBuilds,
            fresh : SUBSET Programs,
            disposing : Snapshots \cup {None}, todo : SUBSET Projects]

TypeOK ==
  /\ current \in Snapshots \cup {None} /\ refCount \in [Snapshots -> Int]
  /\ programs \in [Snapshots -> [Projects -> Programs \cup {None}]]
  /\ apiError \in SUBSET Snapshots
  /\ counter \in [Programs -> Nat] /\ files \in [Programs -> SUBSET Files]
  /\ discarded \in SUBSET Programs /\ parseRefs \in [Files -> Nat]
  /\ updateMu \in Goroutines \cup {None} /\ snapshotMu \in Goroutines \cup {None}
  /\ closing \in {"open", "closing", "closed"}
  /\ go \in [Goroutines -> GoState]
  /\ orphans \in SUBSET Programs /\ panicked \in BOOLEAN

\* NewSession: the root snapshot has no projects.
Init ==
  /\ current \in Snapshots
  /\ refCount = [s \in Snapshots |-> IF s = current THEN 1 ELSE 0]
  /\ programs = [s \in Snapshots |-> NoPrograms]
  /\ apiError = {}
  /\ counter = [q \in Programs |-> 0] /\ files = [q \in Programs |-> {}]
  /\ discarded = {} /\ parseRefs = [f \in Files |-> 0]
  /\ updateMu = None /\ snapshotMu = None /\ closing = "open"
  /\ go = [g \in Goroutines |-> Idle] /\ orphans = {} /\ panicked = FALSE

cacheVars == <<counter, files, discarded, parseRefs, orphans>>
snapVars  == <<programs, apiError>>
lockVars  == <<updateMu, snapshotMu>>

-----------------------------------------------------------------------------
(* Definitions named Bad... are what a plausible mistake would make of the      *)
(* definition that follows them; nothing else refers to them.                   *)

Ready(g, pc) == go[g].pc = pc /\ go[g].disposing = None

\* Objects nobody refers to any more.
FreeSnapshots == {s \in Snapshots : /\ refCount[s] = 0 /\ s # current
                                    /\ \A g \in Goroutines : s \notin {go[g].base, go[g].new, go[g].disposing}}
FreePrograms == {q \in Programs \ orphans :
                   /\ counter[q] = 0
                   /\ \A g \in Goroutines : q \notin {go[g].build[p] : p \in Projects} \cup go[g].fresh}

\* (*Snapshot).Deref, once the goroutine's other fields are as in go2: the last
\* reference makes the goroutine dispose of the snapshot before it goes on.
Deref(g, s, go2) ==
  /\ refCount' = [refCount EXCEPT ![s] = @ - 1]
  /\ panicked' = (panicked \/ refCount[s] - 1 < 0)
  /\ LET todo == {p \in Projects : programs[s][p] # None} IN
     go' = IF refCount[s] = 1 /\ todo # {}
           THEN [go2 EXCEPT ![g].disposing = s, ![g].todo = todo] ELSE go2

\* (*Snapshot).ref
RefPanics(s) == refCount[s] < 1

\* programCounter.Ref for every project with a program at the end of Clone.
RefPrograms(build, fresh) ==
  [q \in Programs |-> counter[q] + IF \E p \in Projects : build[p] = q THEN 1 ELSE 0]

\* The program is released by the last snapshot that holds it (programCounter.Deref).
LastHolder(q) == counter[q] = 1

ReleaseFiles(q) == [f \in Files |-> IF f \in files[q] /\ parseRefs[f] > 0
                                    THEN parseRefs[f] - 1 ELSE parseRefs[f]]

\* One round of the loop of (*Snapshot).dispose.
DisposeProject(g, p) ==
  /\ go[g].disposing # None /\ p \in go[g].todo
  /\ LET q == programs[go[g].disposing][p]
         left == go[g].todo \ {p} IN
     /\ counter' = [counter EXCEPT ![q] = IF @ = 0 THEN 0 ELSE @ - 1]
     /\ IF LastHolder(q)
        THEN discarded' = discarded \cup {q} /\ parseRefs' = ReleaseFiles(q)
        ELSE UNCHANGED <<discarded, parseRefs>>
     /\ go' = [go EXCEPT ![g].todo = left,
                         ![g].disposing = IF left = {} THEN None ELSE @]
  /\ UNCHANGED <<current, refCount, snapVars, files, lockVars, closing, orphans, panicked>>

-----------------------------------------------------------------------------
(* Cloning                                                                      *)

\* Clone panics on a failed snapshot, and on one that is disposed of: its configs have
\* lost their owners (OwnerCache.AddOwner).
StartClone(g, go2, op, base) ==
  /\ panicked' = (panicked \/ base \in apiError \/ RefPanics(base))
  /\ go' = [go2 EXCEPT ![g].pc = "cloning", ![g].op = op, ![g].base = base,
                       ![g].build = programs[base], ![g].builds = 0, ![g].fresh = {}]

\* Project.CreateProgram, a full build: NewProgram acquires every file.
Rebuild(g, p, fs) == fs # {} /\ panicked' = panicked

\* Project.CreateProgram, one file changed: UpdateProgram acquires it and CreateProgram
\* refs the others, which panics if the cache has lost one.
CloneProgram(g, p, fs) ==
  LET old == go[g].build[p] IN
  /\ old # None
  /\ \E was \in files[old], is \in Files \ files[old] : fs = (files[old] \ {was}) \cup {is}
  /\ panicked' = (panicked \/ \E f \in fs \cap files[old] : parseRefs[f] = 0)

\* ProjectCollectionBuilder.updateProgram.  The pool of the old program is discarded.
Dropped(g, q) == {q} \cap go[g].fresh

UpdateProgram(g, p) ==
  /\ Ready(g, "cloning") /\ go[g].builds < MaxBuilds
  /\ \E q \in FreePrograms, fs \in SUBSET Files :
       LET old == go[g].build[p] IN
       /\ Rebuild(g, p, fs) \/ CloneProgram(g, p, fs)
       /\ files' = [files EXCEPT ![q] = fs]
       /\ parseRefs' = [f \in Files |-> IF f \in fs THEN parseRefs[f] + 1 ELSE parseRefs[f]]
       /\ discarded' = (discarded \ {q}) \cup ({old} \ {None})
       /\ orphans' = orphans \cup Dropped(g, old)
       /\ go' = [go EXCEPT ![g].build[p] = q, ![g].builds = @ + 1,
                           ![g].fresh = (@ \ {old}) \cup {q}]
  /\ UNCHANGED <<current, refCount, snapVars, counter, lockVars, closing>>

\* ProjectCollectionBuilder.deleteProject.
DeleteProject(g, p) ==
  /\ Ready(g, "cloning") /\ go[g].build[p] # None /\ go[g].builds < MaxBuilds
  /\ go' = [go EXCEPT ![g].build[p] = None, ![g].builds = @ + 1,
                      ![g].fresh = @ \ {go[g].build[p]}]
  /\ orphans' = orphans \cup Dropped(g, go[g].build[p])
  /\ UNCHANGED <<current, refCount, snapVars, counter, files, discarded, parseRefs,
                 lockVars, closing, panicked>>

AfterClone == [handle |-> "install", noref |-> "install", api |-> "install",
               prepare |-> "handoff", warm |-> "warmed"]

\* The end of (*Snapshot).Clone: the new snapshot has one reference.
FinishClone(g) ==
  /\ Ready(g, "cloning")
  /\ \E s \in FreeSnapshots, failed \in BOOLEAN :
       /\ failed => go[g].op = "api"
       /\ programs' = [programs EXCEPT ![s] = go[g].build]
       /\ refCount' = [refCount EXCEPT ![s] = 1]
       /\ apiError' = IF failed THEN apiError \cup {s} ELSE apiError \ {s}
       /\ counter' = RefPrograms(go[g].build, go[g].fresh)
       /\ go' = [go EXCEPT ![g].pc = AfterClone[go[g].op], ![g].new = s,
                           ![g].build = NoPrograms, ![g].builds = 0, ![g].fresh = {}]
  /\ UNCHANGED <<current, files, discarded, parseRefs, lockVars, closing, orphans, panicked>>

-----------------------------------------------------------------------------
(* getSnapshot, APIUpdate and updateSnapshot                                    *)

WantsRef(op) == op \in {"handle", "api"}

\* getSnapshot and APIUpdate take snapshotUpdateMu and flush the pending changes.
LockForUpdate(h, op) ==
  /\ Ready(h, "idle") /\ closing = "open" /\ op \in Ops /\ updateMu = None
  /\ updateMu' = h /\ go' = [go EXCEPT ![h].pc = "locked", ![h].op = op]
  /\ UNCHANGED <<current, refCount, snapVars, cacheVars, snapshotMu, closing, panicked>>

\* DidChangeCompilerOptionsForInferredProjects updates without snapshotUpdateMu.
UpdateUnlocked(h) ==
  /\ Ready(h, "idle") /\ closing = "open" /\ "noref" \in Ops
  /\ go' = [go EXCEPT ![h].pc = "host", ![h].op = "noref"]
  /\ UNCHANGED <<current, refCount, snapVars, cacheVars, lockVars, closing, panicked>>

\* getSnapshot, nothing to update: under snapshotMu.RLock.
ReuseSnapshot(h) ==
  /\ Ready(h, "locked") /\ go[h].op # "api" /\ snapshotMu = None
  /\ IF WantsRef(go[h].op)
     THEN /\ refCount' = [refCount EXCEPT ![current] = @ + 1]
          /\ panicked' = (panicked \/ RefPanics(current))
          /\ go' = [go EXCEPT ![h].pc = "using", ![h].base = current]
     ELSE /\ go' = [go EXCEPT ![h] = Idle] /\ UNCHANGED <<refCount, panicked>>
  /\ updateMu' = None
  /\ UNCHANGED <<current, snapVars, cacheVars, snapshotMu, closing>>

\* updateSnapshot takes snapshotMu and clones the session's snapshot.
BeginUpdate(h) ==
  /\ Ready(h, "locked") \/ Ready(h, "host")
  /\ snapshotMu = None
  /\ snapshotMu' = h
  /\ StartClone(h, go, go[h].op, current)
  /\ UNCHANGED <<current, refCount, snapVars, cacheVars, updateMu, closing>>

\* updateSnapshot, the clone failed: it is returned, or released, never installed.
Rejects(s) == s \in apiError
UnlockRejected(h) == None
RejectClone(h) ==
  /\ Ready(h, "install") /\ Rejects(go[h].new)
  /\ snapshotMu' = UnlockRejected(h)
  /\ go' = [go EXCEPT ![h].pc = "rejected", ![h].base = None]
  /\ UNCHANGED <<current, refCount, snapVars, cacheVars, updateMu, closing, panicked>>

\* updateSnapshot: the clone becomes the session's snapshot, the caller gets its
\* reference, and the session's reference to the old snapshot is released.
CallerRef(op) == IF WantsRef(op) THEN 1 ELSE 0
InstallClone(h) ==
  /\ Ready(h, "install") /\ ~Rejects(go[h].new)
  /\ LET old == go[h].base
         new == go[h].new
         todo == {p \in Projects : programs[old][p] # None} IN
     /\ current' = new
     /\ refCount' = [refCount EXCEPT ![new] = @ + CallerRef(go[h].op), ![old] = @ - 1]
     /\ panicked' = (panicked \/ refCount[old] < 1)
     /\ go' = [go EXCEPT ![h].pc = "unlock",
                 ![h].disposing = IF refCount[old] = 1 /\ todo # {} THEN old ELSE None,
                 ![h].todo = IF refCount[old] = 1 THEN todo ELSE {}]
  /\ UNCHANGED <<snapVars, cacheVars, lockVars, closing>>

UnlockSnapshot(h) ==
  /\ Ready(h, "unlock") /\ snapshotMu' = None
  /\ go' = [go EXCEPT ![h].pc = "enqueue", ![h].base = None]
  /\ UNCHANGED <<current, refCount, snapVars, cacheVars, updateMu, closing, panicked>>

\* The goroutine's way back to its caller, which unlocks snapshotUpdateMu.
Returned(h) == IF go[h].op \in {"handle", "api"}
               THEN [Idle EXCEPT !.pc = "using", !.op = go[h].op, !.base = go[h].new]
               ELSE Idle

\* updateSnapshot enqueues the background task of the new snapshot: one that may
\* go on to warm the auto-import cache, or one that is done before it does.
\* backgroundQueue.Enqueue drops the task when the queue is closed.
EnqueueUpdateTask(h) ==
  /\ Ready(h, "enqueue") /\ updateMu' = IF updateMu = h THEN None ELSE updateMu
  /\ \/ go' = [go EXCEPT ![h] = Returned(h)]
     \/ \E t \in Tasks : /\ closing = "open" /\ Ready(t, "idle")
                         /\ go' = [go EXCEPT ![h] = Returned(h),
                                     ![t].pc = "start", ![t].op = "warm", ![t].new = go[h].new]
  /\ UNCHANGED <<current, refCount, snapVars, cacheVars, snapshotMu, closing, panicked>>

\* APIUpdate, the request failed: the clone is released, and the host changes flushed
\* with it, if there were any, advance the session by an update of their own.
ReleaseRejected(h) ==
  /\ Ready(h, "rejected") /\ Deref(h, go[h].new, [go EXCEPT ![h].pc = "recover", ![h].new = None])
  /\ UNCHANGED <<current, snapVars, cacheVars, lockVars, closing>>

RecoverHostChanges(h) ==
  /\ Ready(h, "recover")
  /\ \/ updateMu' = updateMu /\ go' = [go EXCEPT ![h].pc = "host", ![h].op = "noref"]
     \/ updateMu' = None /\ go' = [go EXCEPT ![h] = Idle]
  /\ UNCHANGED <<current, refCount, snapVars, cacheVars, snapshotMu, closing, panicked>>

-----------------------------------------------------------------------------
(* The holder of a snapshot                                                     *)

\* GetLanguageServiceWithAutoImports and its API counterpart: the holder clones the
\* snapshot it holds, without the session's locks.
Prepare(h) ==
  /\ Ready(h, "using")
  /\ StartClone(h, go, "prepare", go[h].base)
  /\ UNCHANGED <<current, refCount, snapVars, cacheVars, lockVars, closing>>

\* tryAdoptSnapshotChangeInBackground: a task gets the clone's reference.  Enqueue
\* starts no task when the queue is closed.
HandOff(go2, base, new) ==
  \/ closing # "open" /\ go' = go2
  \/ /\ closing = "open"
     /\ \E t \in Tasks : /\ Ready(t, "idle")
                         /\ go' = [go2 EXCEPT ![t].pc = "start", ![t].op = "adopt",
                                              ![t].base = base, ![t].new = new]

\* GetLanguageServiceWithAutoImports: no default project in the clone: release it.
ReleaseUnused(h) ==
  /\ Ready(h, "handoff") /\ Deref(h, go[h].new, [go EXCEPT ![h].pc = "release", ![h].new = None])
  /\ UNCHANGED <<current, snapVars, cacheVars, lockVars, closing>>

\* GetLanguageServiceWithAutoImports: hand the clone's reference over.
HandOffClone(h) ==
  /\ Ready(h, "handoff")
  /\ HandOff([go EXCEPT ![h].pc = "release", ![h].new = None], go[h].base, go[h].new)
  /\ UNCHANGED <<current, refCount, snapVars, cacheVars, lockVars, closing, panicked>>

\* TryAdoptSnapshotInBackground: a reference of its own for the task; the API request
\* keeps the clone's until it returns.
Retain(h) ==
  /\ Ready(h, "handoff")
  /\ refCount' = [refCount EXCEPT ![go[h].new] = @ + 1]
  /\ panicked' = (panicked \/ RefPanics(go[h].new))
  /\ HandOff([go EXCEPT ![h].pc = "prepared"], go[h].base, go[h].new)
  /\ UNCHANGED <<current, snapVars, cacheVars, lockVars, closing>>

ReleasePrepared(h) ==
  /\ Ready(h, "prepared") /\ Deref(h, go[h].new, [go EXCEPT ![h].pc = "release", ![h].new = None])
  /\ UNCHANGED <<current, snapVars, cacheVars, lockVars, closing>>

\* The request is done with its snapshot.
ReleaseSnapshot(h) ==
  /\ Ready(h, "using") \/ Ready(h, "release")
  /\ Deref(h, go[h].base, [go EXCEPT ![h] = Idle])
  /\ UNCHANGED <<current, snapVars, cacheVars, lockVars, closing>>

-----------------------------------------------------------------------------
(* Tasks of the background queue                                                *)

\* The goroutine looks at the context once more before it runs the task.
DropTask(t) ==
  /\ Ready(t, "start") /\ closing # "open"
  /\ go' = [go EXCEPT ![t] = Idle]
  /\ UNCHANGED <<current, refCount, snapVars, cacheVars, lockVars, closing, panicked>>

RunAdopt(t) ==
  /\ Ready(t, "start") /\ go[t].op = "adopt"
  /\ go' = [go EXCEPT ![t].pc = "adopt"]
  /\ UNCHANGED <<current, refCount, snapVars, cacheVars, lockVars, closing, panicked>>

\* warmAutoImportCache: the new snapshot may be gone by now.
BadTryRef(s) == TRUE
TryRef(s) == refCount[s] > 0
RunWarm(t) ==
  /\ Ready(t, "start") /\ go[t].op = "warm"
  /\ IF TryRef(go[t].new)
     THEN /\ refCount' = [refCount EXCEPT ![go[t].new] = @ + 1]
          /\ StartClone(t, [go EXCEPT ![t].new = None], "warm", go[t].new)
     ELSE go' = [go EXCEPT ![t] = Idle] /\ UNCHANGED <<refCount, panicked>>
  /\ UNCHANGED <<current, snapVars, cacheVars, lockVars, closing>>

\* warmAutoImportCache: the clone is adopted, or thrown away if its context is done.
Warmed(t) ==
  /\ Ready(t, "warmed")
  /\ \/ go' = [go EXCEPT ![t].pc = "adopt"] /\ UNCHANGED <<refCount, panicked>>
     \/ Deref(t, go[t].new, [go EXCEPT ![t].pc = "warmEnd", ![t].new = None])
  /\ UNCHANGED <<current, snapVars, cacheVars, lockVars, closing>>

AfterAdopt(t) == IF go[t].op = "warm" THEN [go[t] EXCEPT !.pc = "warmEnd", !.new = None] ELSE Idle

\* adoptSnapshotChange
BadMovedOn(t) == FALSE
MovedOn(t) == current # go[t].base
Adopt(t) ==
  /\ Ready(t, "adopt") /\ snapshotMu = None
  /\ IF MovedOn(t)
     THEN /\ go' = [go EXCEPT ![t].pc = "lost"]
          /\ UNCHANGED <<current, refCount, panicked, snapshotMu>>
     ELSE /\ current' = go[t].new /\ snapshotMu' = t
          /\ Deref(t, current, [go EXCEPT ![t].pc = "adopted"])
  /\ UNCHANGED <<snapVars, cacheVars, updateMu, closing>>

Adopted(t) ==
  /\ Ready(t, "adopted") /\ snapshotMu' = None
  /\ go' = [go EXCEPT ![t] = AfterAdopt(t)]
  /\ UNCHANGED <<current, refCount, snapVars, cacheVars, updateMu, closing, panicked>>

LostAdoption(t) ==
  /\ Ready(t, "lost") /\ Deref(t, go[t].new, [go EXCEPT ![t] = AfterAdopt(t)])
  /\ UNCHANGED <<current, snapVars, cacheVars, lockVars, closing>>

\* warmAutoImportCache's deferred Deref of the snapshot it started from.
WarmEnd(t) ==
  /\ Ready(t, "warmEnd") /\ Deref(t, go[t].base, [go EXCEPT ![t] = Idle])
  /\ UNCHANGED <<current, snapVars, cacheVars, lockVars, closing>>

\* publishGlobalDiagnostics: a reference to the current snapshot for the task's time.
BeginPublish(t) ==
  /\ Ready(t, "idle") /\ closing = "open" /\ snapshotMu = None
  /\ refCount' = [refCount EXCEPT ![current] = @ + 1]
  /\ panicked' = (panicked \/ RefPanics(current))
  /\ go' = [go EXCEPT ![t].pc = "publish", ![t].op = "publish", ![t].base = current]
  /\ UNCHANGED <<current, snapVars, cacheVars, lockVars, closing>>

EndPublish(t) ==
  /\ Ready(t, "publish") /\ Deref(t, go[t].base, [go EXCEPT ![t] = Idle])
  /\ UNCHANGED <<current, snapVars, cacheVars, lockVars, closing>>

-----------------------------------------------------------------------------
\* Session.Close cancels the background context and closes the queue (the dispatch loop
\* calls it, as it does the update without snapshotUpdateMu, so never during that) ...
BeginClose ==
  /\ closing = "open" /\ closing' = "closing"
  /\ \A g \in Goroutines : go[g].pc = "host" => updateMu = g
  /\ UNCHANGED <<current, refCount, snapVars, cacheVars, lockVars, go, panicked>>

\* ... waits for the tasks, and releases the session's snapshot under both locks.
FinishClose ==
  /\ closing = "closing" /\ \A t \in Tasks : Ready(t, "idle")
  /\ updateMu = None /\ snapshotMu = None
  /\ closing' = "closed" /\ current' = None
  /\ Deref(Closer, current, go)
  /\ UNCHANGED <<snapVars, cacheVars, lockVars>>

HandlerStep(h) ==
  \/ ReuseSnapshot(h) \/ BeginUpdate(h) \/ RejectClone(h) \/ InstallClone(h) \/ UnlockSnapshot(h)
  \/ EnqueueUpdateTask(h) \/ ReleaseRejected(h) \/ RecoverHostChanges(h)
  \/ ReleaseUnused(h) \/ HandOffClone(h) \/ Retain(h) \/ ReleasePrepared(h) \/ ReleaseSnapshot(h)
TaskStep(t) ==
  \/ DropTask(t) \/ RunAdopt(t) \/ RunWarm(t) \/ Warmed(t) \/ Adopt(t) \/ Adopted(t)
  \/ LostAdoption(t) \/ WarmEnd(t) \/ EndPublish(t)
Build(g) == \E p \in Projects : UpdateProgram(g, p) \/ DeleteProject(g, p)
Dispose(g) == \E p \in Projects : DisposeProject(g, p)
Arrival == \/ \E h \in Handlers : Prepare(h) \/ UpdateUnlocked(h) \/ \E op \in Ops : LockForUpdate(h, op)
           \/ \E t \in Tasks : BeginPublish(t)
           \/ BeginClose

Next ==
  \/ Arrival \/ FinishClose
  \/ \E h \in Handlers : HandlerStep(h)
  \/ \E t \in Tasks : TaskStep(t)
  \/ \E g \in Goroutines : Build(g) \/ FinishClone(g) \/ Dispose(g)

Spec == Init /\ [][Next]_vars

-----------------------------------------------------------------------------
(* Properties                                                                   *)

\* No reference is taken on a disposed snapshot, no count falls below zero, no
\* failed snapshot is cloned, and no clone finds a file of its base gone from the
\* parse cache: the panics of ref, Deref, Clone and RefCountCache.Ref are unreachable.
NoPanic == ~panicked

HoldsBase(g) == \/ go[g].pc \in {"using", "release", "warmEnd", "publish"}
                \/ go[g].op \in {"prepare", "warm"}
OwnsNew(g) == \/ go[g].pc \in {"install", "rejected", "handoff", "prepared", "warmed", "adopt", "lost"}
              \/ go[g].pc = "start" /\ go[g].op = "adopt"
              \/ go[g].pc \in {"unlock", "enqueue"} /\ WantsRef(go[g].op)
Owners(s) == (IF current = s THEN 1 ELSE 0)
             + Cardinality({g \in Goroutines : HoldsBase(g) /\ go[g].base = s})
             + Cardinality({g \in Goroutines : OwnsNew(g) /\ go[g].new = s})

\* A snapshot's count is the number of its owners: the session, the requests and tasks
\* that hold it and those that own a clone not yet adopted.  Once the queue is closed a
\* clone handed to a task that never runs keeps its reference, so only >= is left.
OwnersCounted == \A s \in Snapshots : /\ refCount[s] >= Owners(s)
                                      /\ closing = "open" => refCount[s] = Owners(s)

Holds(s, p) == refCount[s] > 0 \/ \E g \in Goroutines : go[g].disposing = s /\ p \in go[g].todo

\* programCounter counts the snapshots that hold a program, however their clones and
\* disposals interleave: it is released by the last of them and never sooner.
ProgramsTracked ==
  \A q \in Programs :
    counter[q] = Cardinality({sp \in Snapshots \X Projects :
                                programs[sp[1]][sp[2]] = q /\ Holds(sp[1], sp[2])})

\* The parse cache counts, for each file, the programs that contain it: those that
\* snapshots hold, those a clone in progress has built, and those a clone built and
\* dropped again before it ended (see ResourcesReleased).
FilesTracked ==
  \A f \in Files :
    parseRefs[f] = Cardinality({q \in Programs : /\ f \in files[q]
                                                 /\ \/ counter[q] > 0 \/ q \in orphans
                                                    \/ \E g \in Goroutines : q \in go[g].fresh})

\* Every count agrees with what it counts, so that no use of one panics.
ReferencesExact == NoPanic /\ OwnersCounted /\ ProgramsTracked /\ FilesTracked

\* The session's snapshot is only ever replaced by a clone of itself: an adoption that
\* comes too late never takes back what the session has moved on to.
NoLostUpdate == [][current' # current /\ current' # None =>
                     \E g \in Goroutines : go[g].new = current' /\ go[g].base = current]_current

\* session.go: the reference of a clone handed to the background "will either promote
\* it as the session's current snapshot or release it": none is left after Close.
NoSnapshotLeak == (closing = "closed" /\ \A g \in Goroutines : go[g] = Idle)
                    => \A s \in Snapshots : refCount[s] = 0

\* snapshot.go: a disposed snapshot's "store-owned resources are released": with no
\* snapshot and no clone left, the parse cache is empty.
ResourcesReleased == (\A s \in Snapshots : refCount[s] = 0) /\ (\A g \in Goroutines : go[g] = Idle)
                       => \A f \in Files : parseRefs[f] = 0

\* checkerpool.go: Discard "signals that this pool's program has been replaced": with
\* nothing in progress, no pool of the session's snapshot is discarded.
CurrentPoolsKept == (current # None /\ \A g \in Goroutines : go[g] = Idle)
                      => \A p \in Projects : programs[current][p] \notin discarded
=============================================================================
