# TLA+ specifications of the TypeScript language service

The Go code under `src/tsc` is a compiler driver, a language server and an API server on top
of one type checker. The type checker, the parser and the printer are large sequential
computations. What is hard to get right, and hard to test, is what surrounds them in
`src/tsc/internal/project`, `lsp`, `api` and `execute/build`: requests of an editor, of API
clients, of the file watcher, of timers and of background tasks share immutable snapshots of a
workspace, the programs in them, pools of type checkers and reference-counted caches; a graph of
projects is built by several goroutines while files change. That is what these modules specify.
All source paths below are relative to `src/tsc/internal` unless they begin with `src/`.

Contents: [inventory](#inventory), [modules](#modules-and-the-code),
[runs](#runs), [fairness](#fairness), [proofs](#proofs), [findings](#findings),
[known deviations](#known-deviations), [not modelled](#not-modelled), [plan](#plan).

## Inventory

Each component with its state, its operations, whom it interacts with, what is hard about
it, and what makes it correct. `PROJECT.json` lists the components with their sources and
the hazards, each at its line.

**Checker pool** (`project/checkerpool.go`). State: slots of checkers (slot 0 for
diagnostics, the others for queries), who holds each, when it was released, the file and
request each was last used for, the API checker, three semaphores, the idle timer and the
global diagnostics seen so far; all but the semaphores under `p.mu`. Operations: `GetChecker`
and its release functions for three lifetimes, `cleanupIdleCheckers`, `Discard`, the
`AfterFunc` of a request's context, `TakeNewGlobalDiagnostics`. Called by the language
service features, by API sessions and by the snapshot builder (which discards the pool of a
replaced program). Hard: the semaphore and the mutex are different critical sections, timers
and AfterFuncs run when they like, a checker may be canceled while in use. Correct when no
checker is used by two goroutines, a held checker is never disposed of, a canceled one never
reused, no wait is for ever, no idle checker is kept for ever, no association outlives its
request or its checker.

**Snapshots** (`project/snapshot.go`, `session.go`, `api.go`, `programcounter.go`). State: the
session's current snapshot, a reference count for each snapshot, the programs of each, a count
of snapshots for each program, the locks `snapshotUpdateMu` and `snapshotMu`. Operations:
`getSnapshot`, `APIUpdate`, `updateSnapshot`, `Clone`, `Deref`/`dispose`, clones made for
auto-imports and their adoption in the background, publishing of diagnostics, `Close`.
Interacts with the background queue, the parse cache, the owner cache and the pools. Hard:
reads before a lock and use after it, ownership handed through a queue, failed API requests,
disposal while clones of the same snapshot are under way, Close. Correct when a count is
always the number of owners, nothing is used after its disposal, and no adoption takes the
session back.

**Session scheduling** (`project/session.go`, `api.go`, `background/queue.go`). State: pending
file, configuration and typings changes, the generation and cancel function of the debounced
update, the idle timer with its wait group, the background context and queue. Operations: the
`Did...` handlers, `Configure`, `getSnapshot`, `APIUpdate`, `ScheduleSnapshotUpdate`,
`scheduleIdleCacheClean`, `Close`. Hard: whoever flushes takes everyone's changes; tasks and
timers race their own cancelation; Close waits for goroutines that wait for locks. Correct when
a request sees what arrived before it, no change is lost, one waiting update and one timer are
known to the session, and Close returns with nothing left running.

**Parse caches** (`project/refcountcache.go`, used from `compilerhost.go`, `project.go`,
`snapshothost.go`). State: a concurrent map from keys to entries, each with a mutex, a count
and a value. Operations: `Acquire`, `AcquireOrError`, `AcquireExisting`, `Ref`, `Deref`. Hard:
an entry is removed between its lookup and its lock, and is in the map before it has a value.
Correct when the count is the number of users and users share one object.

**Extended configuration cache** (`project/ownercache.go`, `extendedconfigcache.go`,
`configfileregistrybuilder.go`, `tsoptions/tsconfigparsing.go`). State: entries with a set of
owning snapshots, parsed under their own lock. Operations: `LoadAndAcquire`, `AddOwner`,
`Release`. Hard: parsing an entry locks further entries; releases go by key. Correct when every
live snapshot owns what its configurations extend, disposed ones own nothing and nobody waits in
a circle.

**Watch registration** (`project/watch.go`, `session.go`, `lsp/server.go`). State: for every glob a
count and the id under which the client watches it, the ids whose registration is pending, what
the session remembers of the content mapper extensions. Operations: a background task for every
adopted snapshot acquires what the snapshot wants anew, releases what its predecessor wanted, and
calls the client, which may refuse. Hard: tasks run at once and end in any order, calls fail
between them. Correct when the client watches what the current snapshot needs.

**Snapshot builders and dirty maps** (`project/projectcollectionbuilder.go`,
`configfileregistrybuilder.go`, `dirty/*`). State: a base map and the entries changed by a clone;
goroutines that look one key up at once have an entry object each, of which the first to change
becomes the key's and the others its proxies. Hard: an entry is changed, deleted or reloaded while
another goroutine makes its own. Correct when the objects of a key behave as one value, and the
base map, which an older snapshot reads, never changes.

**Overlays and events** (`project/overlayfs.go`, `filechange.go`). Pure reduction of a sequence
of open, change, save, close and watch events to one summary. Correct when the summary is the
net effect.

**Typings installer** (`project/ata`). State: the installed typings, packages known to be
missing, one installation at a time. Hard: concurrent requests for one package and failures.

**Language server** (`lsp/server.go`, `dynamic_queue.go`, `progress.go`). State: two queues
between three loops, the requests that can be cancelled, the calls the server waits for itself.
Operations: reading, dispatching in order, asynchronous work, answering, cancelation, shutdown,
exit, the end of the connection. Hard: a cancelation crosses an answer; shutdown is handled by the
goroutine that would have to read the answer that a background task waits for; one loop ends and
the others are blocked. Correct when every request has one answer and `Run` returns.

**API sessions** (`api/session.go`, `project/api.go`, `ipc`). State: handles of snapshots with
counts, what a client has opened or created in the server's own snapshot, which counts over all
clients. Operations: updates of the server's snapshot, private snapshots derived from others,
release, the end of a connection. Hard: requests of one client run at once, updates are refused as
a whole but keep the editor's changes, clients go away at any moment. Correct when what is counted
is what is there, and closing leaves nothing.

**File watching** (`lsp/lspwatcher`, `fswatch`). State: debounced batches, native watches. The
operating system's part is I/O.

**Build mode** (`execute/build`, `execute/watchmanager`). State: a task for every project with
its up-to-date status, `.tsbuildinfo` entry and two channels; events and an overflow flag.
Operations: up-to-date check, compilation, touching of outputs, reporting in order, cycles of the
watcher. Hard: events are split, late or lost; what was decided in one cycle is used in the next;
a task is done before, while or after those downstream look at it. Correct when every project
that is skipped is current and every error is counted.

**Command-line watcher** (`execute/watcher.go`). The same for one program.

**Incremental state** (`execute/incremental`). A graph computation: which files a change
affects.

**Program construction** (`compiler/fileloader.go`, `filesparser.go`, `program.go`,
`checkerpool.go`). Parallel loading of files into tasks, then deterministic collection.

**Concurrency primitives** (`core`, `collections`). Work groups, breadth-first search,
wrappers of the Go library's maps.

**Scanner, parser, binder, checker, transformers, printer, resolver, language service
features**. Sequential functions of their input.

How they interact: the server's dispatch loop calls the session, and API sessions do; the session
flushes pending events and clones its snapshot; a clone loads configurations (owner cache) into
copy-on-write maps, builds programs (parse caches), discards the pools of replaced programs and
enqueues background work, the watch update among it; requests hold a reference
to the snapshot they work on and take checkers from the pools of its programs; the last
reference to a snapshot releases its programs, and the last snapshot of a program its files.

## Modules and the code

| module | code | |
|---|---|---|
| `CheckerPool` | `project/checkerpool.go` | the pool, one action for each critical section of `p.mu` |
| `SnapshotLifecycle` | `project/snapshot.go`, `session.go`, `api.go`, `programcounter.go` | who owns snapshots, programs and files |
| `SessionScheduling` | `project/session.go`, `api.go`, `background/queue.go` | how events become snapshots |
| `RefCountCache` | `project/refcountcache.go` | parsed files |
| `SharedValues` | the promise of the comments in `refcountcache.go` | abstract specification that `RefCountCache` implements |
| `OwnerCache` | `project/ownercache.go` and its users | extended configuration files |
| `DirtySyncMap` | `project/dirty/syncmap.go` and its users | one key of a copy-on-write map |
| `AtomicEntry` | the promise of the comments in `syncmap.go` | abstract specification that `DirtySyncMap` implements |
| `WatchRegistry` | `project/watch.go`, `session.go`, `lsp/server.go` | what the client is asked to watch |
| `ApiSessions` | `api/session.go`, `project/api.go` | handles, opens and programs of API clients |
| `ServerDispatch` | `lsp/server.go`, `dynamic_queue.go` | the loops of the server and the life of a request |
| `BuildOrchestrator` | `execute/build`, `execute/watchmanager` | `tsc -b --watch` |
| `PoolAndCacheProofs` | | theorems about `CheckerPool` and `OwnerCache`, and their proofs |
| `SharedMapsProofs` | | the same for `RefCountCache` and `DirtySyncMap` |
| `...Proofs` | | the same for the module they are named after |
| `MC...` | | symmetry, graphs, sets of requests and bounds for TLC |

The modules keep the code's names. In each, constants that only bound the state space are
marked `bound` where they are declared. A goroutine is a record or a program counter; a mutex
that is held over several steps is a variable with its holder; a critical section without an
observable middle is one action. Objects (checkers, snapshots, programs, entries) come from a
finite set and are reused only when nothing in the state refers to them, as memory is.

Definitions whose names begin with `Bad` state what a plausible mistake would make of the
definition after them (a missing guard, a count that is off by one, a forgotten reset). Nothing
refers to them. Putting one in place of its original makes TLC find a counterexample to the
property that guards against the mistake; `PROJECT.json` lists the pairs under "mutants". It is
how we know that a property is not vacuous.

**CheckerPool.** `pc` is where a goroutine is in `GetChecker`: *claim* (blocked on the
semaphore), *reacquire* (`tryReacquireForRequest`, the first hold of the mutex), *acquire* (the
second hold), *using*, *unlocked* (slot given back, token not yet). A buffered channel used as a
semaphore is the set of goroutines whose token it contains. Time is three ages of
`lastReleased` (unset, recent, expired). The timer is armed or off; a callback that has fired but
waits for the mutex is counted in `callbacks`, since `Timer.Stop` does not recall it. `canceled`
are the checkers whose `WasCanceled` is set. The contents of global diagnostics are a set; the
code compares counts, and so does the model.

**SnapshotLifecycle.** `go[g]` has the snapshot that a goroutine holds (`base`), the one it made
or was given (`new`), the programs of a clone in progress (`build`, `fresh`) and, while it is
disposing of a snapshot, the projects left. What a clone computes is reduced to which programs it
builds, clones or drops. `panicked` remembers whether a panic of `ref`, `Deref`, `Clone` or
`RefCountCache.Ref` was reached.

**SessionScheduling.** Each operation is a list of steps (`Steps`) in the order of the code; an
action is one step of one goroutine. A file change is its number in the order of arrival, the
overlay file system's version the number of changes it has processed. A snapshot is what it was
told: file changes, overlay version, configuration version, typings. `promised` are the changes
that must arrive without anybody asking for a snapshot. What the code does while it holds `snapshotMu`
is within one step, so that the variable `snapshotMu` is only how a panic has left that lock: an update
that comes after `Close` (`Update`, `Panics`) has no snapshot to clone.

**RefCountCache.** Users are programs and leases. Between a lookup and a lock there is a step
boundary; what happens under the lock of an existing entry is one step. A user calls `Ref` while
another, whose program it was cloned from, keeps its reference (`Lent`): `CreateProgram` runs
within a clone of a snapshot that is held.

**OwnerCache.** A goroutine that parses has a stack of frames, one for each extended file whose
lock it holds. The constant `Extends` is the graph of extended files. Where two models are proved
about in one module, the second one's general names have a prefix: `OwnersInit`, `OwnersNext`,
`OwnersTypeOK` here, `MapInit`, `MapNext`, `MapTypeOK` in `DirtySyncMap`.

**DirtySyncMap.** One key, since keys share nothing but the map. Each goroutine has at most one
entry object of its own; `handle` is the object it works through, `cur` where that has led. The
value is what the users of the map keep in it: marks (which projects and files retain a
configuration), and a text that is read from disk when it is stale. `Finalized` is what the map
would keep if the clone ended now; the refinement maps `AtomicEntry`'s value to it, and its
`deleted`, after which `AtomicEntry` allows no step, to the flag of the object in the dirty map.

**WatchRegistry.** A slot is one place of a snapshot that holds a `WatchedFiles`; a glob is a
number. `WatchedFiles.Clone` does not copy the id, so that the clone with unchanged globs has
none (id 0): the model has that. The slots of a task are visited in any order, as map iteration
does, and all watchers have one name, which makes most ids collide. A call that times out has or
has not taken effect.

**ApiSessions.** One configured project with one file; `canon` is the contents of the session's
snapshot as far as API clients affect it, a handle one reference to a snapshot. Waiting for the
client's own lock and computing the request are one step (`BeginUpdate`). `TakeUpdate` takes the
session's lock and flushes what the editor has reported; `Build` is the end of the update, after
resolvers have asked the client, and builds from what was flushed then. Of the editor the model has
whether the file is open (`open`), whether its close has been noted and not flushed (`pending`, since
`DidCloseFile` takes no lock of the session) and what was flushed (`overlay`). A connection that closes while its last update is refused is
"kept": `releaseLanguageServerRefs` ignores the error and its resources stay.

**ServerDispatch.** Three loops and a goroutine for every asynchronous request. A `dynamicQueue`
is its items and the channel its state waits in; taking the state, changing it and giving it back
is one step. `stopping` is the context of the group, `exiting` that of the dispatch loop.

**BuildOrchestrator.** Composite projects with one source and one declaration file each. Times
are only ever compared, so that the model has, for each project, which inputs are `newer` than
its `.tsbuildinfo`, and for its status which the code has compared with (`newerThan`). Compiling
is reading the inputs and, later, writing outputs that depend on exactly them. `late` are projects
with an input that changed between being read and being recorded, which no later comparison shows.
`ScheduleOrder` is the stable sort by depth in the reference graph: the place of a project is the
number of those `Before` it.

How they compose: `SnapshotLifecycle` has the parse cache's counts only; that they are right under
the cache's own races is what `RefCountCache` shows. `SessionScheduling` leaves out who owns
snapshots, which is `SnapshotLifecycle`'s subject, and `WatchRegistry` begins where a snapshot has
been adopted. A background task that waits for the client in `WatchRegistry` is what `Closed` of
`ServerDispatch` waits for when the session is shut down. `ApiSessions` takes from
`SessionScheduling` that updates come one after another and that a refused one still applies the
flushed events. What they share (`snapshotUpdateMu`, the background queue, flushing) is modelled
the same way in each.

## Runs

| run | states | what it shows |
|---|---|---|
| `CheckerPoolSafety` | 1.0 million | no checker is shared, disposed of while held or reused when canceled; idle checkers are watched by a timer, no global diagnostic goes unnoticed (`Upkeep`) |
| `CheckerPoolLive` | 16 thousand | associations name live checkers; waiters are served, idle checkers reclaimed |
| `SnapshotSafety` | 430 thousand | every count is the number of its owners, no panic is reachable (`ReferencesExact`), no adoption takes back a newer snapshot |
| `Sched` | 290 thousand | a request sees every change that arrived before it; overlays and changes agree; nothing flushed is lost; scheduled changes arrive without a request; no waiting update escapes its cancelation; Close leaves nothing running, and nobody waits for ever, but for updates that come after Close and find `snapshotMu` left locked by another's panic |
| `RefCache` | 27 thousand | counts are exact, `Ref` finds an entry, holders share a value (refinement of `SharedValues`) |
| `Owners` | 440 thousand | live snapshots own what they extend, disposed ones nothing; no goroutines wait in a circle for entries whose locks they hold while they parse |
| `DirtyEntries` | 650 thousand | the objects of a key are one atomic value that stays deleted once it is, and the base keeps its own (refinement of `AtomicEntry`), marks survive, a settled file is not stale, everybody finishes |
| `Watches` | 2.3 million | no wanted glob is lost while the client answers; the registry is exact while updates do not overlap; failed registrations are remembered |
| `ApiClients` | 900 thousand | opens, programs and handles are counted exactly over all clients; what is open stays loaded; what the editor reports is lost neither with a refused update nor when it comes while one is built |
| `Dispatch` | 250 thousand | one answer for every request, no right to cancel lost, everyone answered, `Run` returns |
| `Builds` | 580 thousand | when nothing is left to do every project is current and every error counted; references stay still under a compilation; the watcher comes to rest |
| `BuildMissing` | | violated: the build crashes |

Each property is a comment and a formula at the end of its module.

### Bounds

* `CheckerPoolSafety`: two goroutines, two slots (one query, one diagnostics), three checker
  objects, one file, two diagnostics. Two goroutines suffice for every race on one slot and one
  token; with one query slot the limit is hit at once; three objects allow an API checker and
  both slots, or an old and a new instance of the same slot. Goroutines have no request ID
  here, so that reacquisition by request is left to the next run and, for exclusiveness, to the
  proofs.
* `CheckerPoolLive`: one query slot for two goroutines, so that one waits while the other has
  the checker, with and without a shared request whose association names that checker; at most
  one AfterFunc when a new call begins and one callback in flight.
* `SnapshotSafety`: one request goroutine, two tasks, three snapshots, two programs, one file,
  one project and one program update in a clone. Three snapshots are an old one somebody holds,
  the current one and a clone; two tasks are one that adopts and one that warms or publishes.
* `Sched`: the dispatch loop with opens, closes, edits, changed preferences and options and Close,
  another goroutine with requests, API updates and watch events, two debounced tasks (an old one
  meets its successor) and one idle timer. `FewEvents` in `MCSessionScheduling` lets two events of
  all kinds arrive: one on its way while the other comes. `OptionsAlone` is explained under
  [known deviations](#known-deviations). No proof needs `FewEvents`; two need `OptionsAlone`.
* `RefCache`: one key, three users, two entry objects, two values: two users race while a third
  holds, and an entry is replaced.
* `Owners`: two files that two configurations extend, and of which one extends the other and itself:
  a goroutine holds the lock of the one while it waits for the other, which another goroutine may be
  parsing (the hypotheses of the theorems allow that). Two goroutines, four snapshots, and three entry
  objects, with which there are as many states as with four.
* `DirtyEntries`: two goroutines with an entry object each and two operations each: one wins the
  race, the other becomes its proxy and then works through it; one change of the file on disk.
* `Watches`: two slots and two globs, three adopted snapshots, two watch updates at once, one
  failing call: a glob is wanted by both slots, given up by one, and an update is overtaken by the
  next.
* `ApiClients`: two clients, two requests at once (of one client or of two), two handles, two
  programs; the requests of `OpenOrClose` work against each other.
* `Dispatch`: one asynchronous request besides initialize and shutdown, one call that the server
  must have answered and one of a background task. More requests add nothing but interleavings of
  independent goroutines; that is what the theorems are for.
* `Builds`: three projects that all reference each other where they may, so that one waits for
  two, one is upstream of two, and a change travels two steps; two goroutines; two changes by the
  user, at any moment; source files that are in error or not, with a changed declaration file or
  not.

Deadlock is checked in the runs where a goroutine may always call again. The other models come to
rest (the session is closed, the build is quiet, all objects of a bound are in use) and their
runs say `CHECK_DEADLOCK FALSE`; that they do not stop too early is what their liveness properties
and `NobodyStuck` say. In `Sched`, whose state space is too large for liveness, `NobodyStuck` (somebody
who is under way waits for nobody, or somebody stands behind the panic of an update after `Close`) and `ScheduledApplied` (when nothing is under way, what was
scheduled has arrived) take its place. Symmetry is used in runs without liveness only.

## Fairness

Where a module states fairness (`FairSpec`, or `Fairness` in `Spec`), it assumes this and nothing
more:

* *weak fairness of a goroutine that has begun*: the Go scheduler runs every goroutine that can
  run; a caller of `GetChecker` or a holder of a snapshot gives it back (each caller defers the
  release);
* *strong fairness where it waits for a mutex or a semaphore*: other goroutines can disable the
  step again and again, but `sync.Mutex` hands itself to a goroutine that has waited for a
  millisecond, and senders blocked on a channel are served in order;
* *timers expire and AfterFuncs run*;
* in `ServerDispatch`, *the client answers the two calls that `handleInitialized` waits for*, and
  nothing else that it is asked: the call of a background task may stay without an answer;
* in `ApiSessions`, *a client that a resolver asks answers, or its connection ends*;
* in `BuildOrchestrator`, *the system delivers the events it has seen, or an overflow*.

No operation has to be called: requests need not arrive, contexts need not be canceled, the user
need not change or stop changing anything, Close and exit need not come.

## Proofs

Checked by TLAPS for every value of the constants that the assumptions of the modules allow.

`PoolAndCacheProofs`, the checker pool (any number of goroutines, slots, requests, files):

* `TypeCorrect`: `Spec => []TypeOK`. Inductive with `CallOK`: a goroutine past the semaphore has
  asked for something.
* `Exclusive`, `HeldStays`, `NoSlotPanic`: `Spec => []ExclusiveUse`, `[]HeldCheckerStays`,
  `[]QuerySlotAvailable`. None is inductive. `PoolInv` adds three facts. *Tokens*: a semaphore
  contains exactly the goroutines of its category between claim and return, one or at most
  `MaxCheckers - 1`. *Owners*: a goroutine that uses a slot owns it alone, the slot contains its
  checker and carries its tag, and every slot with a tag has an owner. *Distinct*: no checker
  object is in two places. `QuerySlotAvailable` then is a count: the owners of query slots are
  among the other holders of tokens, fewer than there are slots.

The second part proves every other safety property of the pool that the runs check.
`EveryStep` sorts the steps by what they do to the slots (take one, release one, clean up,
expire, leave them alone), and each theorem adds the invariant that it needs.

* `IdleWatched`: `[]IdleIsWatched`; a checker that nobody holds has been released before
  (`Released`), so that scheduling the cleanup finds it.
* `DiscardKeeps`: the action property `DiscardedKeepsCheckers`.
* `CanceledDropped`: `[]CanceledNeverReused`; a canceled checker is one that somebody is using
  (`CanceledInUse`), and by *Distinct* it is nowhere else when it is dropped.
* `Associations`: `[]AssociationsLive`, inductive as it is.
* `NothingMissed`: `[]GlobalsSeen`; the count is that of diagnostics which are accumulated already
  (`Accumulated`), so that equal numbers mean equal sets.
* `UpkeepKept`: `[]Upkeep`, their conjunction, which the run checks.

`SharedMapsProofs`, the parse caches (any number of users, keys, values, entry objects), each under
`~DisableDeletion`, which holds in the language service (only the fourslash tests disable it):

* `TypeCorrect`, `CountsExact`, `RefNeverPanics`, `CountsAlwaysKept`: `Spec => []TypeOK`,
  `[]CountExact`, `[]RefFindsEntry` and their conjunction. `IInv` adds what a goroutine may rely on
  between its steps (`UserOK`): an entry that somebody waits to lock is the one in the map or is
  dead for good; a producer's entry is in the map, locked by it and counted once; whoever lends a
  reference still has it. With `LockOK` (only producers hold locks over several steps), `Distinct`
  (an entry has one key), `KeyOK` (an unlocked entry in the map has a value) and `HeldOK` (users
  have their entry's value) this is inductive; TLC checked it first.
* `Implements`: `Spec => SharesValues`, the refinement of `SharedValues`. Each action is a stutter
  (lookups, dead ends, `Deref` of the count, failed production), a `Drop` (`StartDeref`) or a
  `Hold` (`Join`, `Produce`): the lemmas say which, and that a joining user gets the shared value
  follows from `HeldOK`.

`SessionSchedulingProofs` (any number of callers, tasks, timers, events; any set of operations):

* `NoTaskStrays`, `NothingIsLost`, `NobodyAfterClose`, `NobodyIsStuck`: `Spec => []NoStrayTask`,
  `[]NothingLost`, `[]NoneAfterClose`, `[]NobodyStuck`. `StepsWellOrdered` says of the table of
  steps, once and for all, what each step may rely on: a flush is followed by its update, a
  recovery by its unlock, the lock is taken before and given back at the end, Close has waited
  before it is done. `Inv` relates a goroutine's place in its list to the rest: who is past
  "lock" and not past "unlock" is the holder of the lock (*Holding*, *Held*), a recovery has in
  its hands what its update was refused (*Recovering*), the wait group counts the callbacks that
  run (*WaitGroup*), and Close past a wait leaves none of what it waited for (*Closing*). That
  nobody is stuck then follows by cases: the holder of the lock never waits, except behind the panic
  of an update after Close (`BehindPanic`, which needs `current = NoSnapshot`), and if nobody holds
  it only Close waits, for somebody who does not.
* `ScheduledIsApplied`: `Spec => []ScheduledApplied`. *ClosedByClose*: the queue is closed only by
  somebody who is closing the session. *Awaited*: a change that scheduled an update has been flushed,
  or somebody is `Leading` to a flush of it: he is about to schedule, waits as the task of the newest
  generation, is past the check and before the flush, or closes. What each operation still has to do
  at each of its steps is read off the table of steps once (`StepsLead`). A step that takes away the
  one who leads (a cancelation, a task that finds itself replaced) is thereby shown to be taken by
  somebody who leads himself.
* `RequestsAreServed`, `AlwaysConsistent`: `Spec /\ []OptionsAlone => []RequestSeesChanges`,
  `[]SnapshotConsistent`. `OptionsAlone` says that the dispatch loop changes the options of inferred
  projects only while nobody updates; without it both are false (known deviations). *Consistent*: the
  snapshot has the changes `1 .. overlays`, and either that is every change processed or one goroutine
  carries the rest, exactly; a carrier holds the lock (`CarriersHold`), so there is one at most
  (`CarriesAlone`), and a clone that failed leaves the rest to the recovery (`SeenRejected`,
  `SeenRecovered`). *SeesInv*: who carries on behalf of a request has flushed what the request is due.

`ServerDispatchProofs` (any number of requests, any subset of them synchronous, any of the calls):

* `NothingIsMislaid`, `EachAnsweredOnce`: `Spec => []NothingMislaid`, `[]AnsweredOnce`. A request is
  in one place (*OnePlace*): queued, with the dispatcher, with its goroutine, or over; the queue has
  it at most once (*QueuedOnce*). *Counted* relates that to the answers: none while its handler
  has not come to one, and exactly one from then on, over the queue, the writer's hands and what
  was written, unless the server stops. The lemmas `WhereAppend` and `WhereTail` count members of a
  sequence under `Append` and `Tail`.

`SnapshotLifecycleProofs` (any number of requests, tasks, snapshots, programs, projects, files; any
bound on the builds of a clone):

* `TypeCorrect`, `NeverPanics`, `CountsAreExact`: `Spec => []TypeOK`, `[]NoPanic`,
  `[]ReferencesExact`. The counts alone are not inductive: a step may only take or give back a
  reference because of where its goroutine is. `IInv` adds that. *Shapes*: which operation, base and
  clone a goroutine has at each of its steps. *Locks*: who updates the session's snapshot holds its
  lock and started from that snapshot. *Closing*: the session has a snapshot until Close ends, which
  has waited for every task. *Unfailed*: a clone that failed is nobody's base. *Clones*: a program of
  a clone is the clone's own or its base's. *FreshAlone*: what a clone has built no snapshot and no
  other clone has; what it dropped again nobody has. *Disposals*: a snapshot is disposed of once, by
  one goroutine, which still counts for the projects it has not come to. TLC checked `IInv` first.
  A snapshot's owners are counted as a sum over goroutines (`Count`, `OneMoved`, `TwoMoved`), so that
  a step shows only how the weight of its own goroutine changes (`StillStep`, `TakeStep`, `DropStep`,
  `TwoSteps`). The base of a clone is alive, hence each program it takes over is counted
  (`BuildLive`): that is why `CreateProgram` finds its files, and why a dropped program's are kept.
* `HeldStaysAlive`: `Spec => []HeldAlive`; what a goroutine holds or owns is not disposed of, its
  programs are counted and their files are cached.
* `NoUpdateLost`: the action property `NoLostUpdate`, from *Locks* and the guard of `Adopt`.

`SharedMapsProofs`, the copy-on-write map (any number of goroutines and operations, any number of
changes of the file):

* `MapTypeCorrect`, `MarksAlwaysKept`, `ReloadsSettle`: `MapSpec => []MapTypeOK`, `[]MarksKept`,
  `[]Settled`; `OneValueOfAll`: `MapSpec => OneValue`, that is `Abstract!Spec` under the mapping
  `Finalized` and `BaseUntouched`. `MapInv` says which objects can exist. *Objects*: every object is the one in the dirty map, its
  proxy, or as it was made. *Handles*: a handle is the goroutine's own object or the one in the
  dirty map. *Racing*: who has lost or just won the race has an object nobody has changed. *Clean*:
  an object in the dirty map that has not been cloned has just won and is known to its goroutine
  only, or has been deleted by everybody who knows it; without this a change through a handle would
  write the base, or be lost. *Marks* and *StaleOnlyOnce* relate the key's value to the base's,
  which a goroutine with a clean object of its own still reads. TLC checked `MapInv` first, with two
  and with three goroutines.
* The argument has two halves. A goroutine that is routed works on the dirty object or on its own
  unchanged one (`Routing`), so steps that only lock and read keep everything (`MoveKeeps`). The
  three ways to change the value, in place, by the winner and by a loser, are one `Change` of the
  dirty map's object (`InPlaceKeeps`, `WonKeeps`, `LostKeeps`), and that is one step of
  `AtomicEntry` or, on a deleted key, none (`ChangeIsAtomic`). A key is added only before there is an
  object in the dirty map (`AddKeeps`), thus never after a deletion.

`ApiSessionsProofs` (any finite number of clients and of requests in progress, any number of ids and
handles, any set of requests that clients may send):

* `TypeCorrect`, `CountsAlwaysExact`, `OpenAlwaysLoaded`: `Spec => []TypeOK`, `[]CountsExact`,
  `[]OpenStaysLoaded`. The counts are not inductive alone: an update is computed from what its client
  has, applied to the server's snapshot later, and recorded as the client's later still. `IInv` adds
  what relates the three. *RequestsOk*: a request belongs to a client that is connected or about to
  go; an update holds its client's lock, so that a client has at most one. *Agreed*: an update asks
  only for what its client has not got or wants to give up. *SnapshotsSound*: who has something open
  in a snapshot counts in it, and who has not leaves room, so that no count underflows or exceeds the
  number of clients. *CanonSound*: in the server's snapshot what is needed is loaded.
  *ReferencesKept*: a private snapshot is referenced by everybody who uses it, also after its client
  has gone, and a handle is promised once; without this an answer that has not arrived would be
  counted a second time when it does. *Room*: there is a handle for every answer and an id for
  every program. TLC checked `IInv` first.
* The argument has three parts. `Applying` says what a request does to a sound snapshot, whichever
  of its `Results` comes out. `CountsMoved` turns one client's change into a change of a count, by
  `OneMoved`. `CountsTrack` and `RoomMoves` show for each step that counts, references and room move
  together.
* `HostChangesAlwaysKept`: `Spec => []HostChangesKept`. *Delivered*: what the editor has reported is
  pending until somebody who holds the session's lock flushes it, and is in the server's snapshot
  before the lock is free; who holds it keeps what it has flushed, whatever is noted meanwhile.
* `KeptByOthersOnly`: the action property `KeptOnlyByOthers`. It holds because a client's last update removes only programs that it
  owns and asks for nothing that could fail; only another client's broken program is left to reject it.

`WatchRegistryProofs` (any finite number of slots and globs, any number of adopted snapshots, of
updates at once and of failing calls):

* `TypeCorrect`, `CoveredAlways`, `ExactAlways`: `Spec => []TypeOK`, `[]CoveredIfAnswered`,
  `[]ExactInOrder`. All three speak of the state when no update runs; `IInv` says what the counts are
  while some do. *Counted*: a glob is counted at least as often as it is `Due`, that is wanted by the
  current snapshot, less what the updates have yet to acquire, plus what they have yet to give up.
  Overlapping updates may release before they acquire, which a count stops at 0, so that it can only
  be too high; in order it is exact, because nobody then has more to acquire than is wanted
  (`OrderedDue`). *Unique*: as long as ids name one set of globs each, what is counted is
  registered under its id or about to be, and an id is not counted, or waiting to be unregistered,
  while its watcher is still to come (`Ahead`); otherwise a registration would be dropped under the
  id of a later one. In order that holds although clones with unchanged globs have the id 0: such a
  watcher acquires its globs before those of its original are released, so that it never is the one
  who registers (`FreshId`). *Exact*: in order, nothing else is registered. *History* is what all of
  this reads off the snapshots: ids are given in order, a watcher with an id comes once and to one
  slot, and a watcher without one has the globs of the watcher it replaces.
* `FailuresRemembered`: `Spec => []FailureRemembered`. *Failing*: what the one update has newly
  counted it alone has counted, so that the rollback gives it back entirely; and a current watcher's
  own glob is registered, pending, or the watcher is the one that the update is at or comes to. What a
  release gives up is never such a glob, since its watcher is current (`NotReleased`).
* `ExtensionsAlways`: `Spec => []ExtensionsOfLatest`. *Mapped*: an update that has ended is no newer
  than the one whose extensions are recorded.
* TLC checked `IInv` first, with one and with two slots, without and with failing calls. The lemmas
  named `...Does` say what each action does to its task; `EntryNow`, `GoneNow`, `WatchedNow` and
  `ClientAre` then say of any step how an entry, an id to unregister, a glob to register and the
  client's registrations can have come about, and the invariants are shown from those.

`PoolAndCacheProofs`, the extended configurations (any number of loading and of disposing goroutines,
of configurations, extended files, entries and snapshots):

* `OwnersAreExact`: `Careful /\ ~MayDrop => (OwnersSpec => []OwnersExact)`; `LiveAreOwned`: with
  `Careful` alone, `OwnersTypeOK`, `NoPanic` and `LiveOwned`. The hypotheses exclude exactly what the
  [known deviations](#known-deviations) of this cache need. *Closed*: a configuration names whatever it extends, also
  in turn (no chain of files). *Apart*: one snapshot is disposed of at a time, or no two
  configurations extend the same file. `~MayDrop`: no clone drops a configuration it has just loaded.
  The first is met where projects extend base files that extend nothing themselves.
* The invariant is `Exact`. *OneClone*, *OneDisposal*: the clone's snapshot is nobody else's, and each
  snapshot is disposed of by one goroutine. *LoaderOK*: who has a frame on its stack holds the lock of
  that file's entry, which is in the map; who waits, waits for the entry in the map or for a dead one.
  *Loading*: a configuration of the clone was in the snapshot it came from, or is still to be loaded, or
  is being loaded, or all its files are owned. *Owning*: from then on the clone or the current snapshot
  owns every file that the clone uses, which is why AddOwner finds them. *ReleaseOK*: a release of an
  entry by its key finds the entry it looked up. *OnlyUsed*, *LeftOK*: nobody owns what it does not use,
  and who is being disposed of still has to release all that it owns. TLC checked `Exact` first, on
  four instances of the hypotheses.
* Most steps only add to the cache, and `Grows` says what that means; `Growing`, `LoaderSteps` and
  `OwnSteps` show once and for all what such a step keeps, and only `ReleaseEntry` needs more. `UsesIs`
  computes the recursive `Uses` for closed configurations, by taking the smallest number of rounds at
  which it would be wrong.
* `NobodyIsBlocked`: `NoCircle => (OwnersSpec => []NobodyStuck)`, without the hypotheses above, so also
  for chains of files, many disposers and dropped configurations. *NoCircle*: among any files there is
  one that extends none of the others; it may extend itself, which `getExtendedConfig` catches. With a
  circle of two files the property is false (known deviations). The invariant `Locking`: a held lock is
  that of a frame on its holder's stack (*HeldOK*); each frame's file is extended by the frame below,
  and is another one (*Nested*); everybody who refers to an entry knows it as that of the same file
  (*OneKey*), although `Release` deletes by key. If all goroutines were blocked, each file being parsed
  would extend another one being parsed, the next on the stack or the one waited for (`NextParsed`),
  and those files would contradict `NoCircle`.

`BuildOrchestratorProofs` (any number of projects, with any references that have no cycle, any number of
goroutines, any changes by the user):

* `CycleIsOrdered`, `RefsAreStable`: `Spec => []Control`, and the action property `RefsStable`, without
  any hypothesis. *Cycle*: a task is taken once, in the order of `ScheduleOrder`, and is done after its
  references; only the channels of a project without a configuration may be closed before. The lemmas
  on `ScheduleOrder` show that it names every project once and no project before its references.
* `NothingPanics`: `Exist => (Spec => []NoPanic)`. *Exist* says that every project has a configuration;
  without it the property is false ([findings](#findings)). *Unpanicked*: a task has a `.tsbuildinfo`
  entry from its first check on, so that whoever asks a reference for it finds one, and results are
  reported of tasks that are done.
* `AllAreCurrent`, `ErrorsAreShown`: `Plain => (Spec => []AllCurrent)`, `[]ErrorsShown`. *Plain*: also
  `~StopBuildOnErrors`, since a project that is skipped for upstream errors may stay skipped (known
  deviations). The invariant is `Control /\ Unpanicked /\ Current`. *StatusOf*: which status a task can
  have at each of its steps, and whether it is pending. *Marked*: what is newer than a `.tsbuildinfo`
  tells of every difference from it. *DepsKept*: a project was built with the declarations its
  references have now, or will be compiled; while it compiles, what it has read of them is still true
  (that is `RefsStable`). *Told*: of a difference from the inputs an event is still to come, or the
  project is in hand. *ErrorsOf*: a task knows its errors, and the report shows those of the tasks
  reported. When all is quiet, nothing is in hand and no event is to come, so that nothing differs.
  The hard cases are the steps that do not compile: a project whose references changed without new
  declarations, or whose file was saved unchanged, is only touched, and must have been right before.

Left to TLC:

* *Liveness*, which needs ENABLED and fairness: `WaiterServed`, `Reclaimed`, `Finishes`,
  `EveryoneAnswered`, `RunReturns`, `Settles`.
* *Hypotheses of the theorems above* are not proved of the program; where the code can violate one, the
  known deviations say so.

Every invariant and every action property without fairness that a run checks is stated by a theorem.

## Findings

`BuildMissing`: a project whose `tsconfig.json` does not exist never reads a `.tsbuildinfo`
(`execute/build/buildtask.go:898`). The up-to-date check of a project that references it, and that
is otherwise current, asks it for its latest declaration change and dereferences the nil entry, in
a goroutine that nobody recovers. `uptodatestatus.go:13` lists the case as a status, "config file
was not found". In watch mode such a task crashes a second way: `checkTasksForEventChanges` leaves
it before it makes its channels anew (`orchestrator.go:533`), so that the next cycle closes them
twice.

## Known deviations

Places where the code does other than a comment, a document or what one would expect says, reached
with other values of the constants. The formulas are in the modules; no run lists them, and each
can be reproduced by the change given. In the runs above the constants stay clear of them.

*Snapshots.*

* `NoSnapshotLeak` in `SnapshotLifecycle` (`Ops = {"handle"}`, `MaxBuilds = 1`): a clone handed to
  the background queue when Close has begun is dropped with its reference
  (`project/session.go:1329`, `project/background/queue.go:24`).
* `ResourcesReleased` (`MaxBuilds = 2`, `Ops = {"noref"}`): a program built and replaced within one
  clone keeps its files in the parse cache (`project/projectcollectionbuilder.go:1543`).
* `CurrentPoolsKept` (`Ops = {"handle", "api"}`): a clone that is rejected, or not adopted, has
  already discarded the pool of a program that stays current
  (`project/projectcollectionbuilder.go:1557`). The consequence is mild: a discarded pool works,
  but no longer disposes of idle checkers.

*Scheduling.*

* `RequestSeesChanges` and `SnapshotConsistent` in `SessionScheduling` without `OptionsAlone`:
  changing the options of inferred projects reads the overlays outside `snapshotUpdateMu`
  (`project/session.go:502`, called from `lsp/server.go:2474`) and may install older ones over
  newer.
* `NobodyStuckAfterClose` in `SessionScheduling`: a request or an API update that gets
  `snapshotUpdateMu` after `Close` panics on the nil snapshot (`project/snapshot.go:443`) between the
  `Lock` and the `Unlock` of `snapshotMu` (`project/session.go:1387`, without `defer`), or between
  `RLock` and `RUnlock` (1081). The panic is recovered (`lsp/server.go:1515`, `ipc/conn_async.go:208`),
  `snapshotMu` stays locked, and the next update waits for it for ever, with `snapshotUpdateMu` in its
  hands, as does everybody after it. `NobodyStuck` exempts exactly the states where somebody stands
  behind such a panic.
* A change of the preferences that is pending when an API update flushes is dropped
  (`project/api.go:25`, although `api.go:46-47` says that flushed changes must advance the session).
  `NothingLost` therefore speaks of files and typings.

*Caches.*

* `OwnersExact` in `OwnerCache` with `Extends <- Chain`, two files: `LoadAndAcquire` of a cached
  extended file (`project/ownercache.go:44`) makes the new snapshot an owner of that file's entry,
  but not of the files it extends in turn. If the last snapshot that owns those is disposed of
  before `Clone` comes to its `AddOwner` loop, their entries are gone and `AddOwner` panics
  (its comment, lines 57-59, asks callers to prevent that).
* `NobodyStuck` with `Extends <- Circle`, two files: `getExtendedConfig`
  (`tsoptions/tsconfigparsing.go:951`) bypasses the cache for files on the goroutine's own stack, to
  avoid locking an entry twice (comment, lines 947-950). Two goroutines that enter a circle of
  extended files at different files wait for each other. `execute/tsc/extendedconfigcache.go:32`
  has the same shape.
* `OwnersExact` with two `Disposers`: two releases of a file by its key, of which one finds a younger
  entry (`project/ownercache.go:87`); with `MayDrop = TRUE`: a configuration loaded and dropped
  within one clone leaves its owner behind (`project/configfileregistrybuilder.go:838`).
* `CountsKept` in `RefCountCache` with `DisableDeletion = TRUE`: an entry whose production failed
  stays usable by those who waited for it, with the zero value. Only tests use that option.
* `HandedOutStable` in `DirtySyncMap`: a file that `reloadEntryIfNeeded` has returned changes under
  the caller, or is nil, when another goroutine of the clone reloads it meanwhile
  (`project/snapshotfs.go:456`).

*Watching.*

* `CoveredIfAnswered` without its condition `NoneRecloned`, from five snapshots with two overlapping
  updates or four with three: two sets of globs share the id 0 of re-cloned watchers, and the
  release of one unregisters the other's.
* `RefcountsClean` in `WatchRegistry`: a failed registration gives back only the globs it acquired
  newly; those it shares with other watchers stay counted (`project/session.go:1548`, comment
  1544-1547).
* `RecordedIsRegistered`: when the registration of mapper extensions fails after the old one was
  removed, the session remembers the old one (`project/session.go:1619`, `lsp/server.go:499-504`,
  comment 1617-1618), and takes the client for up to date when the extensions change back.

*API.*

* `NoPanic` in `ApiSessions` with `UpdateAsks <- RemoveAndCreate`: a request that removes a program and
  creates another gives the new one the freed id, and `LoadOrStore` returns nil for a key deleted in
  the same clone (`project/projectcollectionbuilder.go:395`; `acquireConfigForProject` and
  `acquireConfigForFile` after a cleanup have the same shape, 289 and 319).
* A panic in `createSnapshotResponse` leaks the reference to the snapshot it was to answer with, which
  is registered only afterwards (`api/session.go:1875`).

*Build mode.*

* `SkippedHasReason` in `BuildOrchestrator` with `StopBuildOnErrors = TRUE`: a project stays "upstream
  errors" after the errors are gone (`execute/build/buildtask.go:332`, `uptodatestatus.go:17`).
* `AllCurrent` without `late`: a source file changed while it is compiled is older than the
  `.tsbuildinfo` written afterwards (`uptodatestatus.go:20`), and in a plain `tsc -b` nothing tells.

## Not modelled

* Panics of the parser, the checker or a clone (other than those of the counts and of updates after
  `Close`), and what
  `Server.recover` leaves behind: a clone that panics while there is a snapshot leaves `snapshotMu`
  locked too (`project/session.go:1387`), a parse that panics an entry without owners
  (`project/ownercache.go:42`).
* *Pool, snapshots, scheduling*: the texts of diagnostics; the debounced refresh of diagnostics, its
  pending flag (`project/session.go:2012`) and the telemetry; what a clone computes.
* *Dirty map*: the sequential maps, the map's `Delete` and `Range`; a change through an entry that was
  deleted while it was clean, which no caller makes.
* *API sessions*: queries, leases of source files, build orchestrators, `ReconfigurePrograms` and
  `EnsurePrograms`, the wire format; `Close` is one step.
* *Server*: progress reports (a report is keyed by its localized text, and `createProgram` ends one
  without defer, `project/projectcollectionbuilder.go:1509` and 1564); API sessions accepted by the
  server; identifiers used twice; messages that cannot be parsed; panics in the synchronous part of
  a handler; requests sent before `initialized` that dereference the session it makes; a client that
  refuses the calls of `handleInitialized`, after which `initComplete` stays open. A cancelation of
  a request that is still queued is lost, in the code and in the model.
* *Build mode*: solution projects, extended configurations, `package.json` lookups, content mappers,
  changes of the reference graph, `--force`, `--dry`, `--clean`, the API's entry points, a failing
  `ReconcileWatches`, directory events.
* The components marked `not_modelled`, for the reasons given there.

The repository is a compiler: 334,707 lines, of which the scanner, parser, binder, checker,
transformers, printer, generated syntax tree, generated protocol and diagnostics, the language
service features and their test harness are all but a few per cent. They are sequential functions
of unbounded trees and texts, without state shared between goroutines, and without a reference
definition much smaller than themselves that a bounded check could compare them with. The modules
therefore cover a small share of the lines, and most of the code in which goroutines, messages,
timers, caches and locks meet.

## Plan

What is left, in order of worth:

1. `TypingsInstaller` (`project/ata`): concurrent requests for one package, failures, the throttle.
2. Pure algorithms against reference definitions: `OverlayEvents` (reduction of a burst of events for
   one file), `AffectedFiles` (which files a change affects), breadth-first search.
3. File-watch debouncing (`lsp/lspwatcher`), and the parallel file loader (`compiler/filesparser.go`).
