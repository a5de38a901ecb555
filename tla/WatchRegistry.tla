----------------------------- MODULE WatchRegistry -----------------------------
(***************************************************************************)
(* Registration of file watchers with the client: watchRegistry and        *)
(* WatchedFiles of tsc/internal/project/watch.go, updateWatches of         *)
(* session.go and WatchFiles/UnwatchFiles of tsc/internal/lsp/server.go.   *)
(*                                                                         *)
(* Every adopted snapshot enqueues one background task that registers what *)
(* the snapshot wants and its predecessor did not, and unregisters the     *)
(* reverse.  Tasks run concurrently and in any order; a glob wanted twice  *)
(* is registered once, under the id of the first that asked for it.        *)
(*                                                                         *)
(* A slot is one place of a snapshot that holds a WatchedFiles: the root   *)
(* files of a configuration, the program files or the typings of a         *)
(* project, the directories of auto-imports.                               *)
(***************************************************************************)
EXTENDS Integers, FiniteSets, Sequences, FiniteSetsExt

CONSTANTS
  Slots,       \* the WatchedFiles of a snapshot
  Globs,       \* numbers that stand for glob patterns, in their sorted order
  None,        \* no WatchedFiles
  MaxUpdates,  \* bound: snapshots adopted after the first
  MaxTasks,    \* bound: watch updates that run at once
  MaxFailures  \* bound: calls that the client fails or answers too late

ASSUME GlobsAssumption == Globs \subseteq Nat /\ IsFiniteSet(Globs)
ASSUME SlotsAssumption == IsFiniteSet(Slots)
ASSUME BoundsAssumption == MaxUpdates \in Nat /\ MaxTasks \in Nat /\ MaxFailures \in Nat

VARIABLES
  snaps,      \* the adopted snapshots, the current one last
  lastID,     \* watcherID, the counter
  tasks,      \* the watch updates that have not ended, by the number of their snapshot
  entries,    \* watchRegistry.entries: count (0: absent) and id of every glob
  pending,    \* watchRegistry.pending
  known,      \* Server.watchers: the ids that UnwatchFiles will unregister
  client,     \* the client: the glob registered under an id
  mappers,    \* the registration of content mapper extensions: what the session has
              \* recorded for which snapshot, Server.contentMapperExtensionsRegistered, and
              \* what the client has
  failures,   \* client calls that failed
  overlapped  \* history: two watch updates have run at once

registry == <<entries, pending>>
vars == <<snaps, lastID, tasks, registry, known, client, mappers, failures, overlapped>>

Now == snaps[Len(snaps)]
Absent == [count |-> 0, id |-> <<>>]

\* id is 0 for a clone whose globs are those of the original.  All watchers here have one
\* name, as the typings watchers of all projects do, so that WatcherID is the number.
Watcher == [id : 0 .. MaxUpdates, globs : SUBSET Globs]
ASSUME NoneAssumption == None \notin Watcher

\* The id under which w registers g: that of w and the position of g.
GlobID(w, g) == <<w.id, Cardinality({h \in w.globs : h < g})>>

\* A watch update between two registry calls or client calls: slots are to be visited,
\* todo holds the globs or ids that the loop at pc has left, fresh the globs it has newly
\* acquired, gone the ids that it has to unregister.
Begin(n) == [new |-> n, pc |-> "visit", slots |-> Slots, old |-> None, want |-> None,
             todo |-> {}, fresh |-> {}, gone |-> {}, failed |-> FALSE]

TypeOK ==
  /\ snaps \in Seq([Slots -> Watcher \cup {None}]) /\ Len(snaps) \in 1 .. MaxUpdates + 1
  /\ DOMAIN tasks \subseteq 2 .. Len(snaps)
  /\ \A g \in Globs : entries[g].count \in Nat
  /\ pending \subseteq 0 .. lastID
  /\ failures \in 0 .. MaxFailures

Init ==
  /\ snaps = <<[s \in Slots |-> None]>>
  /\ lastID = 0
  /\ tasks = <<>>
  /\ entries = [g \in Globs |-> Absent] /\ pending = {}
  /\ known = {} /\ client = <<>>
  /\ mappers = [recorded |-> {}, snap |-> 0, active |-> FALSE, client |-> {}]
  /\ failures = 0 /\ overlapped = FALSE

--------------------------------------------------------------------------------
\* Snapshots.

\* WatchedFiles.Clone, then Watchers: the id is not cloned, and is given anew only when
\* the globs differ.  A new slot's WatchedFiles starts without globs.
Clone(w, globs) ==
  [id |-> IF globs = (IF w = None THEN {} ELSE w.globs) THEN 0 ELSE lastID + 1, globs |-> globs]

With(f, k, v) == [x \in DOMAIN f \cup {k} |-> IF x = k THEN v ELSE f[x]]
Without(f, k) == [x \in DOMAIN f \ {k} |-> f[x]]

\* A new snapshot is adopted: one slot has appeared, gone or been cloned, or nothing that
\* is watched has changed.  Its watch update joins those that still run.
UpdateSnapshot ==
  /\ Len(snaps) <= MaxUpdates
  /\ Cardinality(DOMAIN tasks) < MaxTasks
  /\ \/ snaps' = Append(snaps, Now) /\ UNCHANGED lastID
     \/ \E s \in Slots : /\ Now[s] # None
                         /\ snaps' = Append(snaps, [Now EXCEPT ![s] = None])
                         /\ UNCHANGED lastID
     \/ \E s \in Slots, globs \in SUBSET Globs :
          /\ snaps' = Append(snaps, [Now EXCEPT ![s] = Clone(@, globs)])
          /\ lastID' = IF Clone(Now[s], globs).id = 0 THEN lastID ELSE lastID + 1
  /\ tasks' = With(tasks, Len(snaps) + 1, Begin(Len(snaps) + 1))
  /\ overlapped' = (overlapped \/ DOMAIN tasks # {})
  /\ UNCHANGED <<registry, known, client, mappers, failures>>

--------------------------------------------------------------------------------
\* updateWatches: which slots need which update.

Become(t, task) == tasks' = [tasks EXCEPT ![t] = task]

\* The next loop of updateWatch that has anything to do, after those before it.
Go(task, pc, todo) == [task EXCEPT !.pc = pc, !.todo = todo]
Visit(task)      == [Go(task, "visit", {}) EXCEPT !.old = None, !.want = None, !.fresh = {}, !.gone = {},
                                                 !.failed = FALSE]
ToVisit(task)    == IF task.gone # {} THEN Go(task, "unwatch", {}) ELSE Visit(task)
BadToRelease(task) == IF task.want # None \/ task.old.globs = {} THEN Visit(task) ELSE Go(task, "release", task.old.globs) \* BUG
ToRelease(task)  == IF task.old = None \/ task.old.globs = {} THEN Visit(task)
                    ELSE Go(task, "release", task.old.globs)
BadToSettle(task) == Go(task, "clear", {}) \* BUG
ToSettle(task)   == IF task.failed THEN Go(task, "rollback", task.fresh) ELSE Go(task, "clear", {})
ToWatch(task)    == IF task.fresh # {} THEN Go(task, "watch", task.fresh) ELSE ToSettle(task)
LoopOr(task, To(_)) == IF task.todo # {} THEN task ELSE To(task)

\* updateWatch(old, want): want is acquired first, then old is released.  A WatchedFiles
\* without globs takes part in neither, and leaves pending alone.
StartUpdate(t, s, old, want) ==
  LET task == [tasks[t] EXCEPT !.slots = @ \ {s}, !.old = old, !.want = want]
  IN  Become(t, IF want = None \/ want.globs = {} THEN ToRelease(task) ELSE Go(task, "acquire", want.globs))

Skip(t, s) == Become(t, [tasks[t] EXCEPT !.slots = @ \ {s}])

VisitSlot(t) ==
  /\ tasks[t].pc = "visit"
  /\ \E s \in tasks[t].slots :
       LET old  == snaps[t - 1][s]
           want == snaps[t][s]
       IN  \/ old = None /\ want = None /\ Skip(t, s)
           \/ old = None /\ want # None /\ StartUpdate(t, s, None, want)
           \/ old # None /\ want = None /\ StartUpdate(t, s, old, None)
           \/ /\ old # None /\ want # None
              /\ IF old.id # want.id THEN StartUpdate(t, s, old, want)
                 ELSE IF want.id \in pending THEN StartUpdate(t, s, None, want)
                 ELSE Skip(t, s)
  /\ UNCHANGED <<snaps, lastID, registry, known, client, mappers, failures, overlapped>>

--------------------------------------------------------------------------------
\* updateWatch.

Acquire(t) ==
  LET task == tasks[t]
      g    == Min(task.todo)
      new  == entries[g].count = 0
  IN  /\ task.pc = "acquire"
      /\ entries' = [entries EXCEPT ![g] = [count |-> @.count + 1,
                                            id |-> IF new THEN GlobID(task.want, g) ELSE @.id]]
      /\ Become(t, LoopOr([task EXCEPT !.todo = @ \ {g}, !.fresh = IF new THEN @ \cup {g} ELSE @], ToWatch))
      /\ UNCHANGED <<snaps, lastID, pending, known, client, mappers, failures, overlapped>>

\* WatchFiles of one newly acquired glob.  A call that fails or times out may have reached
\* the client all the same.
WatchFiles(t) ==
  LET task == tasks[t]
      g    == Min(task.todo)
      id   == GlobID(task.want, g)
      rest == [task EXCEPT !.todo = @ \ {g}]
  IN  /\ task.pc = "watch"
      /\ \/ /\ client' = With(client, id, g)
            /\ known' = known \cup {id}
            /\ Become(t, LoopOr(rest, ToSettle))
            /\ UNCHANGED failures
         \/ /\ failures < MaxFailures
            /\ failures' = failures + 1
            /\ client' \in {client, With(client, id, g)}
            /\ Become(t, LoopOr([rest EXCEPT !.failed = TRUE], ToSettle))
            /\ UNCHANGED known
      /\ UNCHANGED <<snaps, lastID, registry, mappers, overlapped>>

\* watchRegistry.Release
BadReleased(g) == [entries EXCEPT ![g] = Absent] \* BUG
Released(g) == IF entries[g].count <= 1 THEN [entries EXCEPT ![g] = Absent]
               ELSE [entries EXCEPT ![g].count = @ - 1]

\* After an error everything newly acquired is given back, what the client did register too.
Rollback(t) ==
  LET task == tasks[t]
      g    == Min(task.todo)
  IN  /\ task.pc = "rollback" /\ task.todo # {}
      /\ entries' = Released(g)
      /\ Become(t, [task EXCEPT !.todo = @ \ {g}])
      /\ UNCHANGED <<snaps, lastID, pending, known, client, mappers, failures, overlapped>>

MarkPending(t) ==
  LET task == tasks[t]
  IN  /\ task.pc = "rollback" /\ task.todo = {}
      /\ pending' = pending \cup {task.want.id}
      /\ Become(t, ToRelease(task))
      /\ UNCHANGED <<snaps, lastID, entries, known, client, mappers, failures, overlapped>>

ClearPending(t) ==
  LET task == tasks[t]
  IN  /\ task.pc = "clear"
      /\ pending' = pending \ {task.want.id}
      /\ Become(t, ToRelease(task))
      /\ UNCHANGED <<snaps, lastID, entries, known, client, mappers, failures, overlapped>>

ReleaseOld(t) ==
  LET task == tasks[t]
      g    == Min(task.todo)
  IN  /\ task.pc = "release"
      /\ entries' = Released(g)
      /\ Become(t, LoopOr([task EXCEPT !.todo = @ \ {g},
                                       !.gone = IF entries[g].count = 1 THEN @ \cup {entries[g].id} ELSE @],
                          ToVisit))
      /\ UNCHANGED <<snaps, lastID, pending, known, client, mappers, failures, overlapped>>

\* UnwatchFiles: an id that the server has not registered successfully is not sent to the client.
UnwatchFiles(t) ==
  LET task == tasks[t]
  IN  /\ task.pc = "unwatch"
      /\ \E id \in task.gone :
           /\ Become(t, ToVisit([task EXCEPT !.gone = @ \ {id}]))
           /\ \/ /\ id \notin known
                 /\ UNCHANGED <<known, client, failures>>
              \/ /\ id \in known
                 /\ known' = known \ {id} /\ client' = Without(client, id)
                 /\ UNCHANGED failures
              \/ /\ id \in known /\ failures < MaxFailures
                 /\ failures' = failures + 1
                 /\ client' \in {client, Without(client, id)}
                 /\ UNCHANGED known
      /\ UNCHANGED <<snaps, lastID, registry, mappers, overlapped>>

--------------------------------------------------------------------------------
\* updateContentMapperRegistrations, the end of a task: what the configurations of its
\* snapshot map replaces what is registered, unless a later snapshot has been here before.
\* Of the unregistration and the registration one may fail, having reached the client or not.

\* Every slot stands for a configuration that maps one extension of its own.
Extensions(snap) == {s \in Slots : snap[s] # None}

BadUpToDate(t) == Extensions(snaps[t]) = mappers.recorded \* BUG
UpToDate(t) == t <= mappers.snap \/ Extensions(snaps[t]) = mappers.recorded
Cleared == IF mappers.active THEN [mappers EXCEPT !.active = FALSE, !.client = {}] ELSE mappers
FailedUnregister == IF mappers.active THEN {mappers, [mappers EXCEPT !.client = {}]} ELSE {}
FailedRegister(exts) == IF exts = {} THEN {} ELSE {Cleared, [Cleared EXCEPT !.client = exts]}

EndTask(t) ==
  LET exts == Extensions(snaps[t])
  IN  /\ tasks[t].pc = "visit" /\ tasks[t].slots = {}
      /\ tasks' = Without(tasks, t)
      /\ \/ /\ UpToDate(t)
            /\ mappers' = [mappers EXCEPT !.snap = Max({@, t})]
            /\ UNCHANGED failures
         \/ /\ ~UpToDate(t)
            /\ mappers' = [recorded |-> exts, snap |-> t, active |-> exts # {},
                           client |-> IF exts = {} THEN Cleared.client ELSE exts]
            /\ UNCHANGED failures
         \/ /\ ~UpToDate(t) /\ failures < MaxFailures
            /\ failures' = failures + 1
            /\ mappers' \in FailedUnregister \cup FailedRegister(exts)
      /\ UNCHANGED <<snaps, lastID, registry, known, client, overlapped>>

TaskStep(t) ==
  \/ VisitSlot(t) \/ EndTask(t)
  \/ Acquire(t) \/ WatchFiles(t) \/ Rollback(t) \/ MarkPending(t) \/ ClearPending(t)
  \/ ReleaseOld(t) \/ UnwatchFiles(t)

Next == UpdateSnapshot \/ \E t \in DOMAIN tasks : TaskStep(t)

Spec == Init /\ [][Next]_vars

--------------------------------------------------------------------------------
\* Properties.

Quiet == tasks = <<>>
WantedBy(g) == {s \in Slots : Now[s] # None /\ g \in Now[s].globs}
Covered(g) == \E id \in DOMAIN client : client[id] = g

\* No watcher so far was cloned with the globs of its original: every id named one set of globs.
NoneRecloned == \A n \in DOMAIN snaps, s \in Slots : snaps[n][s] # None => snaps[n][s].id # 0

\* As long as no client call has failed, in whatever order the updates of several
\* snapshots ran: once all have ended, the registry counts at least those who want a glob,
\* and the client watches it if the ids of watchers were unique.
CoveredIfAnswered ==
  Quiet /\ failures = 0 =>
    \A g \in Globs : WantedBy(g) # {} => /\ entries[g].count >= Cardinality(WantedBy(g))
                                         /\ NoneRecloned => Covered(g)

\* If also no two updates ran at once, nothing else is watched and nothing is counted twice.
ExactInOrder ==
  Quiet /\ failures = 0 /\ ~overlapped =>
    \A g \in Globs : /\ entries[g].count = Cardinality(WantedBy(g))
                     /\ Covered(g) <=> WantedBy(g) # {}

\* A glob that one watcher only has ever named is watched, or its watcher is to be tried
\* again, whatever calls have failed, if updates have not overlapped.
FailureRemembered ==
  Quiet /\ ~overlapped =>
    \A g \in Globs : \A s \in WantedBy(g) :
      {snaps[n][r] : n \in DOMAIN snaps, r \in Slots} \cap {w \in Watcher : g \in w.globs} = {Now[s]}
      => Now[s].id \in pending \/ Covered(g)

\* As long as no call has failed, in whatever order the updates of several snapshots ended:
\* the client synchronizes the extensions that the current snapshot maps.
ExtensionsOfLatest ==
  Quiet /\ failures = 0 => mappers.client = Extensions(Now) /\ mappers.recorded = Extensions(Now)

\* What the comment on a failed registration says: the session's state is unadvanced, so
\* that what it has recorded is what the client has.
RecordedIsRegistered == Quiet /\ ~overlapped /\ mappers.snap = Len(snaps) => mappers.client = mappers.recorded

\* What the comment on the rollback says: counts are clean after it.
RefcountsClean ==
  Quiet /\ ~overlapped =>
    \A g \in Globs : entries[g].count = Cardinality({s \in WantedBy(g) : Now[s].id \notin pending})
================================================================================
