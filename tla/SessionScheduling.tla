-------------------------- MODULE SessionScheduling --------------------------
(***************************************************************************)
(* How client events become snapshots (tsc/internal/project/session.go and *)
(* api.go).                                                                *)
(*                                                                         *)
(* Events of the client, of the file watcher and of the typings installer  *)
(* accumulate as pending changes.  Whoever next updates the snapshot       *)
(* flushes them: a request, an opened file, a debounced background task,   *)
(* the idle cache clean or an API session.  The updaters exclude each      *)
(* other with snapshotUpdateMu; the debounced task and the idle timer can  *)
(* be canceled or replaced at any time; Close has to wait for both.        *)
(*                                                                         *)
(* A file change is its number in the order of arrival: the overlay file   *)
(* system that has processed the changes 1 .. n is at version n.           *)
(***************************************************************************)
EXTENDS Integers, FiniteSets, Sequences

CONSTANTS
  Loop,        \* the goroutine of the language server's dispatch loop
  Others,      \* goroutines of asynchronous requests, API sessions, the file watcher
  Tasks,       \* debounced background tasks; one is reused after it ended
  Timers,      \* idle timers with the goroutine of their callback, likewise
  None,        \* nil
  LoopOps,     \* what the dispatch loop is asked to do
  OtherOps,    \* what the other goroutines are asked to do
  MaxChanges,  \* bound: file changes
  MaxConfigs,  \* bound: changes of the user's configuration
  MaxATA       \* bound: finished installations of typings

ASSUME GoroutinesAssumption ==
  /\ IsFiniteSet(Others) /\ IsFiniteSet(Tasks) /\ IsFiniteSet(Timers)
  /\ Tasks # {} /\ Timers # {}
  /\ Others \cap Tasks = {} /\ Others \cap Timers = {} /\ Tasks \cap Timers = {}
  /\ Loop \notin Others \cup Tasks \cup Timers /\ None \notin {Loop} \cup Others \cup Tasks \cup Timers
ASSUME BoundsAssumption == MaxChanges \in Nat /\ MaxConfigs \in Nat /\ MaxATA \in Nat
ASSUME OpsAssumption ==
  /\ LoopOps \subseteq {"open", "mappers", "close", "edit", "watch", "watchConfig", "request", "options", "shutdown"}
  /\ OtherOps \subseteq {"request", "api", "watch", "watchConfig"}

Goroutines == {Loop} \cup Others \cup Tasks \cup Timers

VARIABLES
  appended,    \* file changes so far: the pending ones are processed + 1 .. appended
  processed,   \* file changes processChanges has seen: the version of s.fs.overlays
  configNow,   \* version of s.workspaceUserPreferences
  configDue,   \* s.pendingUserConfigChanges
  ataNow,      \* finished installations of typings
  ataDue,      \* the ones in s.pendingATAChanges
  current,     \* what the current snapshot has been told, NoSnapshot after Close
  updateMu,    \* the holder of s.snapshotUpdateMu
  snapshotMu,  \* how a panic left s.snapshotMu locked; between steps nobody else holds it
  generation,  \* s.scheduledSnapshotUpdateGeneration
  scheduled,   \* the task s.scheduledSnapshotUpdateCancel cancels, or None
  canceled,    \* the tasks whose context is canceled
  taskGen,     \* the generation a task was scheduled with
  idleTimer,   \* s.idleCacheCleanTimer
  idleWG,      \* the counter of s.idleCacheCleanWG
  idleClosed,  \* s.idleCacheCleanClosed
  queueClosed, \* the background context is canceled and the queue closed
  go,          \* the goroutines
  promised     \* history: the file changes that scheduled an update

pendingVars == <<appended, processed, configNow, configDue, ataNow, ataDue, promised>>
taskVars    == <<generation, scheduled, canceled, taskGen>>
idleVars    == <<idleTimer, idleWG, idleClosed>>
vars == <<pendingVars, taskVars, idleVars, current, updateMu, snapshotMu, queueClosed, go>>

Changes    == 1 .. MaxChanges
\* What a snapshot was built from: the file changes it was told of, the version of
\* its overlays, the configuration and the typings.
SnapshotState == [files : SUBSET Changes, overlays : 0 .. MaxChanges,
                  config : 0 .. MaxConfigs, ata : SUBSET (1 .. MaxATA)]
NoSnapshot == [files |-> {}, overlays |-> -1, config |-> 0, ata |-> {}]
FirstSnapshot == [files |-> {}, overlays |-> 0, config |-> 0, ata |-> {}]

\* A change that was flushed; config = 0 when the preferences did not change.
NoChange == [files |-> {}, overlays |-> 0, config |-> 0, ata |-> {}]
Idle == [op |-> "none", step |-> 0, change |-> NoChange, due |-> 0, got |-> NoSnapshot]

-----------------------------------------------------------------------------
(* Definitions named Bad... are what a plausible mistake would make of the      *)
(* definition that follows them; nothing else refers to them.                   *)

\* A closed file is recorded, then the debounced update is scheduled.
BadDidCloseFileSteps == <<"arm", "schedule", "append">>  \* BUG: schedule, then record
DidCloseFileSteps    == <<"arm", "append", "schedule">>

\* Close takes the lock last: those it waits for need it.
BadCloseSteps == <<"cancel", "lock", "stopIdle", "waitIdle", "stopQueue", "waitQueue", "final">>  \* BUG: lock, then wait
CloseSteps    == <<"cancel", "stopIdle", "waitIdle", "stopQueue", "waitQueue", "lock", "final">>

\* The steps of each operation, in the order of the code.
Steps(op) ==
  CASE op = "open"        -> <<"arm", "cancel", "lock", "flush", "update", "unlock">>
    [] op = "mappers"     -> <<"cancel", "lock", "flush", "update", "unlock">>
    [] op = "close"       -> DidCloseFileSteps
    [] op = "edit"        -> <<"arm", "append">>
    [] op = "watch"       -> <<"append", "arm">>
    [] op = "watchConfig" -> <<"append", "schedule", "arm">>
    [] op = "request"     -> <<"lock", "cancel", "flush", "update", "unlock">>
    [] op = "api"         -> <<"lock", "cancel", "flush", "update", "recover", "unlock">>
    [] op = "options"     -> <<"read", "update">>
    [] op = "task"        -> <<"check", "lock", "flush", "update", "unlock">>
    [] op = "idle"        -> <<"armed", "fired", "lock", "cancel", "flush", "update", "unlock">>
    [] op = "shutdown"    -> CloseSteps
    [] OTHER              -> <<>>

At(g, name) == go[g].step \in DOMAIN Steps(go[g].op) /\ Steps(go[g].op)[go[g].step] = name

\* The goroutine after its step, with its record g2.
Advance(g2) == IF g2.step = Len(Steps(g2.op)) THEN Idle ELSE [g2 EXCEPT !.step = @ + 1]
Step(g) == go' = [go EXCEPT ![g] = Advance(@)]
\* The goroutine gives up: it panicked, and the panic was recovered, or has nothing to do.
End(g) == go' = [go EXCEPT ![g] = Idle]

\* A call begins; due is what the caller may rely on to be seen.
Begin(g, op, due) ==
  /\ go[g].op = "none"
  /\ go' = [go EXCEPT ![g] = [Idle EXCEPT !.op = op, !.step = 1, !.due = due]]

TypeOK ==
  /\ processed \in 0 .. appended /\ appended \in 0 .. MaxChanges
  /\ configNow \in 0 .. MaxConfigs /\ configDue \in BOOLEAN
  /\ ataNow \in 0 .. MaxATA /\ ataDue \subseteq 1 .. ataNow
  /\ current \in SnapshotState \cup {NoSnapshot}
  /\ updateMu \in Goroutines \cup {None} /\ snapshotMu \in {"free", "read", "write"}
  /\ generation \in Nat /\ taskGen \in [Tasks -> Nat]
  /\ scheduled \in Tasks \cup {None} /\ canceled \subseteq Tasks
  /\ idleTimer \in Timers \cup {None} /\ idleWG \in Int
  /\ idleClosed \in BOOLEAN /\ queueClosed \in BOOLEAN
  /\ \A g \in Goroutines :
       /\ go[g].step \in 0 .. Len(Steps(go[g].op))
       /\ go[g].change \in SnapshotState /\ go[g].due \in 0 .. MaxChanges
       /\ go[g].got \in SnapshotState \cup {NoSnapshot}
  /\ promised \subseteq Changes

Init ==
  /\ appended = 0 /\ processed = 0 /\ configNow = 0 /\ configDue = FALSE
  /\ ataNow = 0 /\ ataDue = {} /\ promised = {}
  /\ current = FirstSnapshot /\ updateMu = None /\ snapshotMu = "free"
  /\ generation = 0 /\ scheduled = None /\ canceled = {} /\ taskGen = [t \in Tasks |-> 0]
  /\ idleTimer = None /\ idleWG = 0 /\ idleClosed = FALSE /\ queueClosed = FALSE
  /\ go = [g \in Goroutines |-> Idle]

-----------------------------------------------------------------------------
(* Operations begin.                                                            *)

\* Bound: file changes that are still to come count as well.
ToCome(g) == \/ At(g, "append")
             \/ go[g].op = "open" /\ \E i \in go[g].step .. 6 : Steps("open")[i] = "flush"
             \/ go[g].op \in {"close", "edit"} /\ At(g, "arm")
Room == appended + Cardinality({g \in Goroutines : ToCome(g)}) < MaxChanges

\* A handler of the dispatch loop, or another goroutine, calls into the session.  Without
\* a snapshot DidChangeWatchedFiles panics before it does anything.
Call(g, op) ==
  /\ op \in {"open", "close", "edit", "watch", "watchConfig"} => Room
  /\ g = Loop \/ op \in {"watch", "watchConfig"} => current # NoSnapshot
  /\ Begin(g, op, IF op \in {"request", "api"} THEN appended ELSE 0)
  /\ UNCHANGED <<pendingVars, taskVars, idleVars, current, updateMu, queueClosed, snapshotMu>>

\* Configure
Configure ==
  /\ go[Loop].op = "none" /\ current # NoSnapshot /\ configNow < MaxConfigs
  /\ configNow' = configNow + 1 /\ configDue' = TRUE
  /\ UNCHANGED <<appended, processed, ataNow, ataDue, promised, taskVars, idleVars,
                 current, updateMu, queueClosed, snapshotMu, go>>

\* A background task finished installing typings that differ from the project's.
TypingsInstalled ==
  /\ ~queueClosed /\ ataNow < MaxATA
  /\ ataNow' = ataNow + 1 /\ ataDue' = ataDue \cup {ataNow + 1}
  /\ UNCHANGED <<appended, processed, configNow, configDue, promised, taskVars, idleVars,
                 current, updateMu, queueClosed, snapshotMu, go>>

-----------------------------------------------------------------------------
(* Events accumulate.                                                           *)

\* DidCloseFile, DidChangeFile, DidSaveFile and DidChangeWatchedFiles append to
\* pendingFileChanges.
AppendChange(g) ==
  /\ At(g, "append")
  /\ appended' = appended + 1
  /\ promised' = promised \cup (IF go[g].op \in {"close", "watchConfig"} THEN {appended + 1} ELSE {})
  /\ Step(g)
  /\ UNCHANGED <<processed, configNow, configDue, ataNow, ataDue, taskVars, idleVars,
                 current, updateMu, queueClosed, snapshotMu>>

\* The task whose cancel function is stored, once a newer event replaces it.
BadReplaced == {}  \* BUG: the older update stays
Replaced == {scheduled} \ {None}

\* ScheduleSnapshotUpdate: Enqueue drops the task once the queue is closed.
Schedule(g) ==
  /\ At(g, "schedule")
  /\ generation' = generation + 1
  /\ \E t \in Tasks :
       /\ go[t].op = "none"
       /\ canceled' = (canceled \cup Replaced) \ {t}
       /\ taskGen' = [taskGen EXCEPT ![t] = generation + 1]
       /\ scheduled' = t
       /\ go' = [go EXCEPT ![g] = Advance(@),
                           ![t] = IF queueClosed THEN Idle ELSE [Idle EXCEPT !.op = "task", !.step = 1]]
  /\ UNCHANGED <<pendingVars, idleVars, current, updateMu, queueClosed, snapshotMu>>

\* cancelScheduledSnapshotUpdate
CancelScheduled(g) ==
  /\ At(g, "cancel")
  /\ IF scheduled = None THEN UNCHANGED taskVars
     ELSE /\ canceled' = canceled \cup {scheduled} /\ scheduled' = None
          /\ generation' = generation + 1 /\ UNCHANGED taskGen
  /\ Step(g)
  /\ UNCHANGED <<pendingVars, idleVars, current, updateMu, queueClosed, snapshotMu>>

\* The debounced task's select saw that its context is canceled.
TaskCanceled(t) ==
  /\ At(t, "check") /\ (t \in canceled \/ queueClosed)
  /\ End(t)
  /\ UNCHANGED <<pendingVars, taskVars, idleVars, current, updateMu, queueClosed, snapshotMu>>

\* Its delay passed: only the task of the newest generation goes on.
TaskCheck(t) ==
  /\ At(t, "check")
  /\ IF generation # taskGen[t] THEN End(t) /\ UNCHANGED scheduled
     ELSE scheduled' = None /\ Step(t)
  /\ UNCHANGED <<pendingVars, generation, canceled, taskGen, idleVars,
                 current, updateMu, queueClosed, snapshotMu>>

-----------------------------------------------------------------------------
(* The idle cache clean.                                                        *)

\* time.Timer.Stop: whether it prevented the timer from firing.
Stops(tm) == tm # None /\ At(tm, "armed")

\* How many pending callbacks a call of Stop takes off the wait group.
BadStopped == IF idleTimer # None THEN 1 ELSE 0  \* BUG: even if it has fired
Stopped == IF Stops(idleTimer) THEN 1 ELSE 0

\* scheduleIdleCacheClean
ArmIdle(g) ==
  /\ At(g, "arm")
  /\ IF idleClosed THEN Step(g) /\ UNCHANGED idleVars
     ELSE \E tm \in Timers :
            /\ go[tm].op = "none" \/ (tm = idleTimer /\ Stops(tm))
            /\ idleWG' = idleWG - Stopped + 1 /\ idleTimer' = tm /\ UNCHANGED idleClosed
            /\ go' = [x \in Goroutines |->
                        IF x = g THEN Advance(go[x])
                        ELSE IF x = tm THEN [Idle EXCEPT !.op = "idle", !.step = 1]
                        ELSE IF x = idleTimer /\ Stops(idleTimer) THEN Idle ELSE go[x]]
  /\ UNCHANGED <<pendingVars, taskVars, current, updateMu, queueClosed, snapshotMu>>

\* Thirty seconds passed: the runtime starts the callback in a goroutine of its own.
Fire(tm) ==
  /\ At(tm, "armed") /\ Step(tm)
  /\ UNCHANGED <<pendingVars, taskVars, idleVars, current, updateMu, queueClosed, snapshotMu>>

\* The callback forgets its timer, unless a newer one has taken its place.
Forgets(tm) == idleTimer = tm
ForgetTimer(tm) ==
  /\ At(tm, "fired") /\ Step(tm)
  /\ idleTimer' = (IF Forgets(tm) THEN None ELSE idleTimer)
  /\ UNCHANGED <<pendingVars, taskVars, idleWG, idleClosed, current, updateMu, queueClosed, snapshotMu>>

-----------------------------------------------------------------------------
(* Updating the snapshot.                                                       *)

Lock(g) ==
  /\ At(g, "lock") /\ updateMu = None
  /\ updateMu' = g /\ Step(g)
  /\ UNCHANGED <<pendingVars, taskVars, idleVars, current, queueClosed, snapshotMu>>

\* DidOpenFile and SetContentMapperContributions only flush the file changes.
FilesOnly(g) == go[g].op \in {"open", "mappers"}

\* The preferences that are flushed, if they changed.
FlushedConfig(g) == IF FilesOnly(g) \/ ~configDue THEN 0 ELSE configNow

\* What is flushed; DidOpenFile appends its own change in the same critical section.
\* BUG: a request does not flush what is pending
BadLastForRequest(g) == IF go[g].op = "open" THEN appended + 1 ELSE IF g \in Others THEN processed ELSE appended
LastChange(g) == IF go[g].op = "open" THEN appended + 1 ELSE appended
Flushed(g) == [files |-> processed + 1 .. LastChange(g), overlays |-> LastChange(g),
               config |-> FlushedConfig(g), ata |-> IF FilesOnly(g) THEN {} ELSE ataDue]

\* Nothing was pending, so that the current snapshot will do.
NothingPending(c) == c.files = {} /\ c.ata = {} /\ c.config = 0

\* flushChanges.  APIUpdate ignores the new preferences.  A task with nothing to
\* do returns; a request may find all its projects loaded.
\* UpdateSnapshot is always the next step, and unlocking the one after.
Flush(g) ==
  /\ At(g, "flush")
  /\ LET c == Flushed(g)
         skip == [go[g] EXCEPT !.step = @ + 2, !.got = IF go[g].op = "request" THEN current ELSE NoSnapshot]
         change == IF go[g].op = "api" THEN [c EXCEPT !.config = 0] ELSE c IN
     /\ appended' = appended + (IF go[g].op = "open" THEN 1 ELSE 0) /\ processed' = c.overlays
     /\ IF FilesOnly(g) THEN UNCHANGED <<configDue, ataDue>> ELSE configDue' = FALSE /\ ataDue' = {}
     /\ \/ ~(go[g].op = "task" /\ NothingPending(c))
           /\ go' = [go EXCEPT ![g] = Advance([@ EXCEPT !.change = change])]
        \/ /\ NothingPending(c) /\ go[g].op \in {"task", "request"}
           /\ go[g].op = "request" => current # NoSnapshot
           /\ go' = [go EXCEPT ![g] = skip]
  /\ UNCHANGED <<configNow, ataNow, promised, taskVars, idleVars,
                 current, updateMu, queueClosed, snapshotMu>>

\* DidChangeCompilerOptionsForInferredProjects takes the overlays as they are, and no lock.
ReadOverlays(g) ==
  /\ At(g, "read")
  /\ go' = [go EXCEPT ![g] = Advance([@ EXCEPT !.change = [NoChange EXCEPT !.overlays = processed]])]
  /\ UNCHANGED <<pendingVars, taskVars, idleVars, current, updateMu, queueClosed, snapshotMu>>

\* Clone, then make the clone the session's snapshot.
\* BUG: the clone keeps the overlays of the old snapshot
BadApplied(c) == [files |-> current.files \cup c.files, overlays |-> current.overlays,
                  config |-> IF c.config = 0 THEN current.config ELSE c.config,
                  ata |-> current.ata \cup c.ata]
Applied(c) == [files |-> current.files \cup c.files, overlays |-> c.overlays,
               config |-> IF c.config = 0 THEN current.config ELSE c.config,
               ata |-> current.ata \cup c.ata]

\* The lock is released when a panic unwinds a handler.
Release(g) == updateMu' = (IF updateMu = g THEN None ELSE updateMu)

\* After Close there is no snapshot to clone, or to read the projects of a request from:
\* the goroutine panics while it holds snapshotMu, which no deferred call unlocks.
Panics(g, left) ==
  \/ left = "write" /\ snapshotMu = "free"
  \/ left = "read" /\ snapshotMu # "write" /\ go[g].op = "request" /\ NothingPending(go[g].change)

\* updateSnapshot, and what getSnapshot does before it if nothing was pending.
Update(g) ==
  /\ At(g, "update")
  /\ \/ /\ current = NoSnapshot /\ End(g) /\ Release(g) /\ UNCHANGED current
        /\ \E left \in {"read", "write"} : Panics(g, left) /\ snapshotMu' = left
     \/ /\ current # NoSnapshot /\ UNCHANGED <<updateMu, snapshotMu>>
        /\ LET next == Applied(go[g].change)
               done == [go[g] EXCEPT !.change = NoChange, !.got = next] IN
           /\ current' = next
           /\ go' = [go EXCEPT ![g] = Advance(IF done.op = "api" THEN [done EXCEPT !.step = @ + 1] ELSE done)]
  /\ UNCHANGED <<pendingVars, taskVars, idleVars, queueClosed>>

\* The request of an API client failed: its clone is not installed.
Reject(g) ==
  /\ At(g, "update") /\ go[g].op = "api" /\ current # NoSnapshot /\ Step(g)
  /\ UNCHANGED <<pendingVars, taskVars, idleVars, current, updateMu, queueClosed, snapshotMu>>

\* APIUpdate then applies what it flushed for the host, if that is anything.
BadRecovered(c) == current  \* BUG: what was flushed is dropped
Recovered(c) == IF c.files = {} /\ c.ata = {} THEN current ELSE Applied(c)
Recover(g) ==
  /\ At(g, "recover")
  /\ current' = Recovered(go[g].change)
  /\ go' = [go EXCEPT ![g] = Advance([@ EXCEPT !.change = NoChange])]
  /\ UNCHANGED <<pendingVars, taskVars, idleVars, updateMu, queueClosed, snapshotMu>>

\* The deferred Unlock, and the deferred Done of the idle callback.
Unlock(g) ==
  /\ At(g, "unlock") /\ updateMu' = None /\ Step(g)
  /\ idleWG' = idleWG - (IF g \in Timers THEN 1 ELSE 0)
  /\ UNCHANGED <<pendingVars, taskVars, idleTimer, idleClosed, current, queueClosed, snapshotMu>>

-----------------------------------------------------------------------------
(* Close.                                                                       *)

\* closeIdleCacheClean: stop the timer, then wait for a callback that is running.
StopIdle(g) ==
  /\ At(g, "stopIdle")
  /\ idleClosed' = TRUE /\ idleTimer' = None /\ idleWG' = idleWG - Stopped
  /\ go' = [x \in Goroutines |-> IF x = g THEN Advance(go[x])
                                 ELSE IF x = idleTimer /\ Stops(idleTimer) THEN Idle ELSE go[x]]
  /\ UNCHANGED <<pendingVars, taskVars, current, updateMu, queueClosed, snapshotMu>>

WaitIdle(g) ==
  /\ At(g, "waitIdle") /\ idleWG = 0 /\ Step(g)
  /\ UNCHANGED <<pendingVars, taskVars, idleVars, current, updateMu, queueClosed, snapshotMu>>

\* backgroundCancel and the closing of the queue.
StopQueue(g) ==
  /\ At(g, "stopQueue") /\ queueClosed' = TRUE /\ Step(g)
  /\ UNCHANGED <<pendingVars, taskVars, idleVars, current, updateMu, snapshotMu>>

\* backgroundQueue.Close waits for the tasks.
TasksEnded == \A t \in Tasks : go[t].op = "none"
WaitQueue(g) ==
  /\ At(g, "waitQueue") /\ TasksEnded /\ Step(g)
  /\ UNCHANGED <<pendingVars, taskVars, idleVars, current, updateMu, queueClosed, snapshotMu>>

\* The session gives its snapshot up.
Final(g) ==
  /\ At(g, "final") /\ current' = NoSnapshot /\ updateMu' = None /\ Step(g)
  /\ UNCHANGED <<pendingVars, taskVars, idleVars, queueClosed, snapshotMu>>

-----------------------------------------------------------------------------
LoopCalls  == \E op \in LoopOps : Call(Loop, op)
OtherCalls == \E g \in Others, op \in OtherOps : Call(g, op)

\* What a goroutine does once it was called, the other goroutines permitting.
Run(g) ==
  \/ ArmIdle(g) \/ AppendChange(g) \/ Schedule(g) \/ CancelScheduled(g)
  \/ Flush(g) \/ ReadOverlays(g) \/ Update(g) \/ Reject(g) \/ Recover(g) \/ Unlock(g)
  \/ StopIdle(g) \/ WaitIdle(g) \/ StopQueue(g) \/ WaitQueue(g) \/ Final(g)
RunTask(t)   == TaskCanceled(t) \/ TaskCheck(t)
RunTimer(tm) == Fire(tm) \/ ForgetTimer(tm)

Next ==
  \/ LoopCalls \/ OtherCalls \/ Configure \/ TypingsInstalled
  \/ \E g \in Goroutines : Run(g) \/ Lock(g)
  \/ \E t \in Tasks : RunTask(t)
  \/ \E tm \in Timers : RunTimer(tm)

Spec == Init /\ [][Next]_vars

-----------------------------------------------------------------------------
(* Properties.                                                                  *)

\* getSnapshot "flushes pending changes and updates the session's snapshot if
\* needed for the given request": what a request or an API client gets contains
\* every file change that had arrived when it asked, as an overlay and as a change
\* its projects were told of.
RequestSeesChanges ==
  \A g \in Goroutines :
    At(g, "unlock") /\ go[g].op \in {"request", "api"} /\ go[g].got # NoSnapshot
      => 1 .. go[g].due \subseteq go[g].got.files /\ go[g].got.overlays >= go[g].due

\* DidChangeCompilerOptionsForInferredProjects takes no lock and may install old overlays over
\* newer ones: RequestSeesChanges and SnapshotConsistent are about the others, that is, hold
\* as long as it is called only while no other update is under way.
OptionsAlone == go[Loop].op = "options" => updateMu = None

\* The overlays of the current snapshot are those after the very changes its
\* projects were told of: a program is never kept although a file of it changed
\* (flushChanges and updateSnapshot under one snapshotUpdateMu).
SnapshotConsistent ==
  current # NoSnapshot => current.files = 1 .. current.overlays

InFlight == {go[g].change : g \in Goroutines}

\* A change of a file or of typings that was taken off the pending ones is in the
\* current snapshot or on its way there: a failed API request must not lose it
\* ("host changes were already flushed and must still advance the canonical
\* session snapshot").
NothingLost ==
  current # NoSnapshot =>
    /\ \A n \in 1 .. processed : n \in current.files \/ \E c \in InFlight : n \in c.files
    /\ \A a \in 1 .. ataNow : a \in ataDue \cup current.ata \/ \E c \in InFlight : a \in c.ata

\* A waiting debounced update that was not canceled can be canceled: the session
\* has its cancel function (ScheduleSnapshotUpdate cancels the previous one).
NoStrayTask ==
  \A t \in Tasks : At(t, "check") /\ t \notin canceled => scheduled = t

\* Close waits for every background update: none is left to use the snapshot it
\* has given up (closeIdleCacheClean and backgroundQueue.Close come first).
NoneAfterClose ==
  current = NoSnapshot => \A x \in Tasks \cup Timers : go[x].op = "none"

Quiet == \A g \in Goroutines : go[g].op = "none"

\* The file change of a closed file or of a changed configuration file reaches the
\* snapshot without anybody asking: when nothing runs or waits any more it is there
\* (the debounced update, its cancelation and its replacement).
ScheduledApplied == Quiet /\ current # NoSnapshot => promised \subseteq current.files

\* The goroutine waits for snapshotMu, which a panic left locked.
BehindPanic(g) ==
  At(g, "update") /\ current = NoSnapshot /\ \A left \in {"read", "write"} : ~Panics(g, left)

\* The goroutine waits: for a lock, or for its turn in Close; a bound of the model
\* makes it wait for a free task or timer.
Waits(g) ==
  \/ At(g, "lock") /\ updateMu # None
  \/ BehindPanic(g)
  \/ At(g, "waitIdle") /\ idleWG # 0
  \/ At(g, "waitQueue") /\ ~TasksEnded
  \/ At(g, "schedule") /\ \A t \in Tasks : go[t].op # "none"
  \/ At(g, "arm") /\ \A tm \in Timers : go[tm].op # "none" /\ tm # idleTimer

\* Nobody waits for ever, neither for the lock nor in Close for a callback or a
\* background task that needs it: while something is under way, some goroutine of
\* it waits for nobody (closeIdleCacheClean, backgroundQueue.Close).  The code ensures
\* this until Close has given the snapshot up: a request that comes later may find
\* snapshotMu locked by the panic of an earlier one.
NobodyStuck ==
  \/ Quiet
  \/ \E g \in Goroutines : go[g].op # "none" /\ ~Waits(g)
  \/ \E g \in Goroutines : BehindPanic(g)

\* The claim for all times, false once an update has come after Close (README, known
\* deviations); no run checks it.
NobodyStuckAfterClose == Quiet \/ \E g \in Goroutines : go[g].op # "none" /\ ~Waits(g)
=============================================================================
