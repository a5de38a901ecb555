------------------------------ MODULE OwnerCache ------------------------------
(***************************************************************************)
(* The cache of extended configuration files                               *)
(* (tsc/internal/project/ownercache.go, extendedconfigcache.go), with the  *)
(* code that uses it: loading of configurations while a snapshot is cloned *)
(* (configfileregistrybuilder.go, tsoptions/tsconfigparsing.go), the       *)
(* clone's AddOwner and the dispose of old snapshots (snapshot.go).        *)
(*                                                                         *)
(* A cache entry is owned by the snapshots whose configurations extend its *)
(* file.  It is parsed under its lock, and parsing loads what the file     *)
(* extends in turn, so that a goroutine may hold the locks of several      *)
(* entries.  The last owner removes the entry - by its key.                *)
(***************************************************************************)
EXTENDS Integers, FiniteSets, Sequences

CONSTANTS
  Builder,    \* the goroutine that clones the session's snapshot
  Loaders,    \* goroutines of the parallel search for projects during the clone
  Disposers,  \* goroutines that drop the last reference to a snapshot
  Configs,    \* configuration files of projects
  ExtendedFiles, \* files that are extended, the keys of the cache
  Extends,    \* what a configuration or a file extends, directly
  Entries,    \* entry objects; one is reused only after all forgot it
  Nil,        \* nil
  Last,       \* bound: the snapshots are 0 .. Last
  MayDrop     \* bound: a clone may drop a configuration it has just loaded

ASSUME GoroutinesAssumption ==
  /\ IsFiniteSet(Loaders) /\ IsFiniteSet(Disposers) /\ Loaders \cap Disposers = {}
  /\ Builder \notin Loaders \cup Disposers /\ Nil \notin Loaders \cup Disposers \cup {Builder}
ASSUME FilesAssumption ==
  /\ IsFiniteSet(Configs) /\ IsFiniteSet(ExtendedFiles) /\ Configs \cap ExtendedFiles = {}
  /\ Extends \in [Configs \cup ExtendedFiles -> SUBSET ExtendedFiles] /\ Nil \notin Entries /\ IsFiniteSet(Entries)
ASSUME BoundAssumption == Last \in Nat /\ MayDrop \in BOOLEAN

Procs     == {Builder} \cup Loaders \cup Disposers
Snapshots == 0 .. Last

VARIABLES
  entries,   \* OwnerCache.entries
  lockedBy,  \* the goroutine that holds an entry's mutex
  owners,    \* ownerCacheEntry.owners
  registry,  \* the configurations of a snapshot
  life,      \* "unborn", "building", "live" (somebody refers to it), "disposing", "disposed"
  current,   \* the session's snapshot
  toLoad,    \* configurations the clone has yet to load
  go,        \* the goroutines
  panicked   \* history: AddOwner has panicked

cacheVars == <<entries, lockedBy, owners>>
snapVars  == <<registry, life, current, toLoad>>
ownersVars == <<cacheVars, snapVars, go, panicked>>

\* A goroutine works on the snapshot snap.  Its stack has a frame for each file it is
\* parsing: the file, its locked entry and the files that it extends and are not loaded
\* yet.  The lowest frame is that of a configuration, which has no entry.
\* waiting is the entry it has looked up and wants to lock.
NoWork == [pc |-> "idle", snap |-> 0, stack |-> <<>>, todo |-> {}, file |-> Nil, waiting |-> Nil]

\* ExtendedSourceFiles: everything that is extended, directly or not.
Uses(c) ==
  LET reach[n \in 0 .. Cardinality(ExtendedFiles)] ==
        IF n = 0 THEN Extends[c] ELSE reach[n - 1] \cup UNION {Extends[f] : f \in reach[n - 1]}
  IN reach[Cardinality(ExtendedFiles)]

\* The extended files of a snapshot's configurations, a file once for every configuration.
UsesIn(configs) == UNION {{<<c, f>> : f \in Uses(c)} : c \in configs}
UsesOf(s) == UsesIn(registry[s])

OwnersTypeOK ==
  /\ entries \in [ExtendedFiles -> Entries \cup {Nil}]
  /\ lockedBy \in [Entries -> Procs \cup {Nil}] /\ owners \in [Entries -> SUBSET Snapshots]
  /\ registry \in [Snapshots -> SUBSET Configs] /\ current \in Snapshots
  /\ life \in [Snapshots -> {"unborn", "building", "live", "disposing", "disposed"}]
  /\ toLoad \subseteq Configs /\ panicked \in BOOLEAN
  /\ \A p \in Procs :
       /\ go[p].pc \in {"idle", "load", "own", "release"}
       /\ go[p].snap \in Snapshots /\ go[p].waiting \in Entries \cup {Nil}
       /\ go[p].todo \subseteq Configs \X ExtendedFiles /\ go[p].file \in ExtendedFiles \cup {Nil}
       /\ \A i \in DOMAIN go[p].stack :
            go[p].stack[i].file \in Configs \cup ExtendedFiles /\ go[p].stack[i].rest \subseteq ExtendedFiles

OwnersInit ==
  /\ entries = [f \in ExtendedFiles |-> Nil]
  /\ lockedBy = [e \in Entries |-> Nil] /\ owners = [e \in Entries |-> {}]
  /\ registry = [s \in Snapshots |-> {}] /\ current = 0 /\ toLoad = {}
  /\ life = [s \in Snapshots |-> IF s = 0 THEN "live" ELSE "unborn"]
  /\ go = [p \in Procs |-> NoWork] /\ panicked = FALSE

Pending(p) == {go[p].waiting} \cup {go[p].stack[i].entry : i \in DOMAIN go[p].stack}
FreeEntries == {e \in Entries : /\ \A f \in ExtendedFiles : entries[f] # e
                                /\ \A p \in Procs : e \notin Pending(p)}

-----------------------------------------------------------------------------
(* Definitions named Bad... are what a plausible mistake would make of the      *)
(* definition that follows them; nothing else refers to them.                   *)
(*                                                                              *)
(* Loading configurations.                                                      *)

\* A frame when its parse begins.
Frame(file, entry) == [file |-> file, entry |-> entry, rest |-> Extends[file]]

\* The next snapshot ID.
NewSnapshot == Cardinality({s \in Snapshots : life[s] # "unborn"})

\* A clone of the current snapshot starts: it keeps some configurations as they are,
\* gives up others and loads new ones.
StartClone ==
  /\ go[Builder].pc = "idle" /\ life[Last] = "unborn"
  /\ LET s == NewSnapshot IN
     \E configs \in SUBSET Configs, loads \in SUBSET Configs :
       /\ configs \ registry[current] \subseteq loads /\ loads \subseteq configs
       /\ registry' = [registry EXCEPT ![s] = configs] /\ toLoad' = loads
       /\ life' = [life EXCEPT ![s] = "building"]
       /\ go' = [go EXCEPT ![Builder] = [NoWork EXCEPT !.pc = "load", !.snap = s]]
  /\ UNCHANGED <<cacheVars, current, panicked>>

\* A goroutine of the parallel search visits a project and parses its configuration.
VisitConfig(p) ==
  /\ go[p].pc = "idle" /\ go[Builder].pc = "load"
  /\ \E c \in toLoad :
       /\ toLoad' = toLoad \ {c}
       /\ go' = [go EXCEPT ![p] = [NoWork EXCEPT !.pc = "load", !.snap = go[Builder].snap,
                                                !.stack = <<Frame(c, Nil)>>]]
  /\ UNCHANGED <<cacheVars, registry, life, current, panicked>>

Top(p)   == go[p].stack[Len(go[p].stack)]
Parsing(p) == p \in Loaders /\ go[p].pc = "load" /\ go[p].waiting = Nil
Parsed(stack, f) == [stack EXCEPT ![Len(stack)].rest = @ \ {f}]
BadOnStack(p, f) == FALSE
OnStack(p, f) == \E i \in DOMAIN go[p].stack : go[p].stack[i].file = f

\* getExtendedConfig with a file on the resolution stack: it bypasses the cache, and
\* parseConfig reports the circularity.
ReportCircularity(p) ==
  /\ Parsing(p)
  /\ \E f \in Top(p).rest :
       OnStack(p, f) /\ go' = [go EXCEPT ![p].stack = Parsed(@, f)]
  /\ UNCHANGED <<cacheVars, snapVars, panicked>>

\* loadOrStoreLockedEntry stores an entry of its own, locked and without owners, and
\* parsing begins.
StoreEntry(p) ==
  /\ Parsing(p)
  /\ \E f \in Top(p).rest, e \in FreeEntries :
       /\ ~OnStack(p, f) /\ entries[f] = Nil
       /\ entries' = [entries EXCEPT ![f] = e]
       /\ lockedBy' = [lockedBy EXCEPT ![e] = p] /\ owners' = [owners EXCEPT ![e] = {}]
       /\ go' = [go EXCEPT ![p].stack = Append(@, Frame(f, e))]
  /\ UNCHANGED <<snapVars, panicked>>

\* loadOrStoreLockedEntry finds an entry.
FindEntry(p) ==
  /\ Parsing(p)
  /\ \E f \in Top(p).rest :
       /\ ~OnStack(p, f) /\ entries[f] # Nil
       /\ go' = [go EXCEPT ![p].waiting = entries[f], ![p].file = f]
  /\ UNCHANGED <<cacheVars, snapVars, panicked>>

CanLock(p) == go[p].waiting # Nil /\ lockedBy[go[p].waiting] = Nil

\* It got the lock: an entry without owners was deleted meanwhile.
Deleted(e) == owners[e] = {}
Retry(p) ==
  /\ go[p].pc = "load" /\ CanLock(p) /\ Deleted(go[p].waiting)
  /\ go' = [go EXCEPT ![p].waiting = Nil, ![p].file = Nil]
  /\ UNCHANGED <<cacheVars, snapVars, panicked>>

\* LoadAndAcquire: the entry's value will do.
Reuse(p) ==
  /\ go[p].pc = "load" /\ CanLock(p) /\ ~Deleted(go[p].waiting)
  /\ owners' = [owners EXCEPT ![go[p].waiting] = @ \cup {go[p].snap}]
  /\ go' = [go EXCEPT ![p].waiting = Nil, ![p].file = Nil, ![p].stack = Parsed(@, go[p].file)]
  /\ UNCHANGED <<entries, lockedBy, snapVars, panicked>>

\* LoadAndAcquire: isExpired, since the file or one it extends has changed.
Reparse(p) ==
  /\ go[p].pc = "load" /\ CanLock(p) /\ ~Deleted(go[p].waiting)
  /\ lockedBy' = [lockedBy EXCEPT ![go[p].waiting] = p]
  /\ go' = [go EXCEPT ![p].waiting = Nil, ![p].file = Nil,
                      ![p].stack = Append(@, Frame(go[p].file, go[p].waiting))]
  /\ UNCHANGED <<entries, owners, snapVars, panicked>>

\* Parsing is done: LoadAndAcquire adds the owner and unlocks the entry.
\* BUG: entries stay locked until the configuration extends nothing more.
BadUnlocked(e) ==
  IF Cardinality(go[lockedBy[e]].stack[1].rest) = 1
  THEN [x \in Entries |-> IF lockedBy[x] = lockedBy[e] THEN Nil ELSE lockedBy[x]]
  ELSE lockedBy
Unlocked(e) == [lockedBy EXCEPT ![e] = Nil]
FinishFile(p) ==
  /\ Parsing(p) /\ Len(go[p].stack) > 1 /\ Top(p).rest = {}
  /\ LET e == Top(p).entry
         below == SubSeq(go[p].stack, 1, Len(go[p].stack) - 1) IN
     /\ owners' = [owners EXCEPT ![e] = @ \cup {go[p].snap}]
     /\ lockedBy' = Unlocked(e)
     /\ go' = [go EXCEPT ![p].stack = Parsed(below, Top(p).file)]
  /\ UNCHANGED <<entries, snapVars, panicked>>

FinishConfig(p) ==
  /\ Parsing(p) /\ Len(go[p].stack) = 1 /\ Top(p).rest = {}
  /\ go' = [go EXCEPT ![p] = NoWork]
  /\ UNCHANGED <<cacheVars, snapVars, panicked>>

-----------------------------------------------------------------------------
(* Owning.                                                                      *)

\* Clone owns whatever the configurations of the new snapshot extend, loaded or kept.
BadToOwn(configs) == {}
ToOwn(configs) == UsesIn(configs)

\* The parallel search for projects is over.
Loaded == toLoad = {} /\ \A p \in Loaders : go[p].pc = "idle"

\* Every configuration is loaded.  Cleanup drops those that nothing retains, even if
\* this clone has loaded them.
FinishLoading ==
  /\ go[Builder].pc = "load" /\ Loaded
  /\ LET s == go[Builder].snap IN
     \E drop \in SUBSET registry[s] :
       /\ MayDrop \/ drop = {}
       /\ registry' = [registry EXCEPT ![s] = @ \ drop]
       /\ go' = [go EXCEPT ![Builder].pc = "own",
                           ![Builder].todo = ToOwn(registry[s] \ drop)]
  /\ UNCHANGED <<cacheVars, life, current, toLoad, panicked>>

\* AddOwner: look the entry up, then lock it.
AddOwnerLookup ==
  /\ go[Builder].pc = "own" /\ go[Builder].waiting = Nil
  /\ \E u \in go[Builder].todo :
       IF entries[u[2]] = Nil
       THEN panicked' = TRUE /\ UNCHANGED go
       ELSE /\ go' = [go EXCEPT ![Builder].waiting = entries[u[2]], ![Builder].todo = @ \ {u}]
            /\ UNCHANGED panicked
  /\ UNCHANGED <<cacheVars, snapVars>>

AddOwner ==
  /\ go[Builder].pc = "own" /\ CanLock(Builder)
  /\ LET e == go[Builder].waiting IN
     /\ owners' = [owners EXCEPT ![e] = @ \cup {go[Builder].snap}]
     /\ panicked' = (panicked \/ owners[e] = {})
     /\ go' = [go EXCEPT ![Builder].waiting = Nil]
  /\ UNCHANGED <<entries, lockedBy, snapVars>>

\* The clone replaces the session's snapshot.
FinishClone ==
  /\ go[Builder].pc = "own" /\ go[Builder].waiting = Nil /\ go[Builder].todo = {}
  /\ life' = [life EXCEPT ![go[Builder].snap] = "live"] /\ current' = go[Builder].snap
  /\ go' = [go EXCEPT ![Builder] = NoWork]
  /\ UNCHANGED <<cacheVars, registry, toLoad, panicked>>

-----------------------------------------------------------------------------
(* Releasing.                                                                   *)

\* The last reference to a snapshot that is not the session's any more is dropped.
StartDispose(d) ==
  /\ go[d].pc = "idle"
  /\ \E s \in Snapshots :
       /\ life[s] = "live" /\ s # current
       /\ life' = [life EXCEPT ![s] = "disposing"]
       /\ go' = [go EXCEPT ![d] = [NoWork EXCEPT !.pc = "release", !.snap = s, !.todo = UsesOf(s)]]
  /\ UNCHANGED <<cacheVars, registry, current, toLoad, panicked>>

\* Release, once for every configuration and file it extends: look the entry up, then lock it.
ReleaseLookup(d) ==
  /\ go[d].pc = "release" /\ go[d].waiting = Nil
  /\ \E u \in go[d].todo :
       LET f == u[2] IN
       go' = [go EXCEPT ![d].todo = @ \ {u}, ![d].waiting = entries[f],
                        ![d].file = IF entries[f] = Nil THEN Nil ELSE f]
  /\ UNCHANGED <<cacheVars, snapVars, panicked>>

Remaining(e, s) == owners[e] \ {s}
ReleaseEntry(d) ==
  /\ go[d].pc = "release" /\ CanLock(d)
  /\ LET e == go[d].waiting
         rest == Remaining(e, go[d].snap) IN
     /\ owners' = [owners EXCEPT ![e] = rest]
     /\ entries' = (IF rest = {} THEN [entries EXCEPT ![go[d].file] = Nil] ELSE entries)
  /\ go' = [go EXCEPT ![d].waiting = Nil, ![d].file = Nil]
  /\ UNCHANGED <<lockedBy, snapVars, panicked>>

FinishDispose(d) ==
  /\ go[d].pc = "release" /\ go[d].waiting = Nil /\ go[d].todo = {}
  /\ life' = [life EXCEPT ![go[d].snap] = "disposed"] /\ go' = [go EXCEPT ![d] = NoWork]
  /\ UNCHANGED <<cacheVars, registry, current, toLoad, panicked>>

-----------------------------------------------------------------------------
BuilderStep == FinishLoading \/ AddOwnerLookup \/ AddOwner \/ FinishClone
LoaderStep(p) ==
  \/ VisitConfig(p) \/ ReportCircularity(p) \/ StoreEntry(p) \/ FindEntry(p)
  \/ Retry(p) \/ Reuse(p) \/ Reparse(p) \/ FinishFile(p) \/ FinishConfig(p)
DisposerStep(d) == ReleaseLookup(d) \/ ReleaseEntry(d) \/ FinishDispose(d)

OwnersNext ==
  \/ StartClone \/ BuilderStep
  \/ \E p \in Loaders : LoaderStep(p)
  \/ \E d \in Disposers : StartDispose(d) \/ DisposerStep(d)

OwnersSpec == OwnersInit /\ [][OwnersNext]_ownersVars

-----------------------------------------------------------------------------
(* Properties.                                                                  *)

\* AddOwner always finds an entry with an owner ("callers must ensure the entry is
\* kept alive (e.g. via snapshot ref counting)").
NoPanic == ~panicked

\* A snapshot that somebody may use owns the entry of every file its configurations
\* extend, so that the next clone of it can rely on them (Clone's AddOwner loop).
LiveOwned ==
  \A s \in Snapshots : life[s] = "live" =>
    \A u \in UsesOf(s) : entries[u[2]] # Nil /\ s \in owners[entries[u[2]]]

\* A disposed snapshot owns nothing ("the snapshot is disposed and its store-owned
\* resources are released"): no entry is kept for ever.
NothingLeft ==
  \A s \in Snapshots : life[s] = "disposed" =>
    \A f \in ExtendedFiles : entries[f] # Nil => s \notin owners[entries[f]]

\* Entries live exactly as long as somebody owns them.
OwnersExact == NoPanic /\ LiveOwned /\ NothingLeft

\* A goroutine waits: for the lock of an entry, or, as the one that clones, for the search.
Blocked(p) ==
  \/ go[p].waiting # Nil /\ ~CanLock(p)
  \/ p = Builder /\ go[p].pc = "load" /\ \E q \in Loaders : go[q].pc # "idle"

\* While something is being done, somebody can go on: goroutines do not wait for each
\* other's entries in a circle (getExtendedConfig bypasses the cache on a cycle, since it
\* would "re-lock the same entry, resulting in a deadlock").
NobodyStuck ==
  (\E p \in Procs : go[p].pc # "idle") => \E p \in Procs : go[p].pc # "idle" /\ ~Blocked(p)
=============================================================================
