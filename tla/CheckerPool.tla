---------------------------- MODULE CheckerPool ----------------------------
(***************************************************************************)
(* The per-project pool of type checkers of the language service           *)
(* (tsc/internal/project/checkerpool.go).                                  *)
(*                                                                         *)
(* A goroutine that needs a checker first claims a token of the semaphore  *)
(* of its category (diagnostics, query, API), then, under the pool's mutex,*)
(* tries the checker its request used before, and then, under a second     *)
(* hold of the mutex, takes or creates one.  It gives the checker back     *)
(* under the mutex and only then returns its token.  A timer disposes of   *)
(* idle checkers; Discard stops it for good.                               *)
(*                                                                         *)
(* Every critical section of p.mu is one action.  A buffered channel used  *)
(* as a semaphore is the set of the goroutines whose token it holds.       *)
(***************************************************************************)
EXTENDS Naturals, FiniteSets

CONSTANTS
  Callers,      \* goroutines that call GetChecker, one checker at a time each
  Requests,     \* request IDs whose context can be canceled
  NoRequest,    \* requestID == "": no ID, or a context that is never done
  Files,        \* source files
  NoFile,       \* a call without a file
  Instances,    \* checker objects; one is reused only after all forgot it
  None,         \* the nil checker
  Diags,        \* global diagnostics a diagnostics checker can produce
  MaxCheckers,  \* opts.MaxCheckers: one diagnostics slot, the rest query slots
  Kinds,        \* the checker lifetimes the goroutines ask for
  MaxCleanups,  \* bound: no new call of a request with this many AfterFuncs
  MaxCallbacks  \* bound: timer callbacks in flight at once

NotHeld   == "not held"      \* heldBy[i] == ""
Anonymous == "<anonymous>"   \* checkerHeldAnonymous

ASSUME MaxCheckersAssumption == MaxCheckers \in Nat /\ MaxCheckers >= 2
ASSUME CallersAssumption     == IsFiniteSet(Callers)
ASSUME DiagsAssumption       == IsFiniteSet(Diags)
ASSUME BoundsAssumption      == MaxCleanups \in Nat /\ MaxCallbacks \in Nat \ {0}
ASSUME KindsAssumption       == Kinds \subseteq {"diagnostics", "query", "api"}
ASSUME NamesAssumption       == /\ NoRequest \notin Requests
                                /\ NoFile \notin Files
                                /\ None \notin Instances
                                /\ NotHeld \notin Requests \cup {Anonymous}

DiagIndex  == 0
QuerySlots == 1 .. MaxCheckers - 1
Slots      == {DiagIndex} \cup QuerySlots
NoSlot     == MaxCheckers    \* absent from fileAssociations / requestAssociations

VARIABLES
  checkers, heldBy, lastReleased, fileAssociations, requestAssociations,
  cleanupTimer,          \* "off" (nil, or fired and not reset) or "armed"
  discarded, persistentChecker, persistentHeld,
  diagSem, querySem, persistentSem,
  globalDiagAccumulated, globalDiagChanged, globalDiagCount,
  pc, call, slot, inst,  \* of each goroutine: where it is, what it asked, what it got
  callbacks,             \* cleanupIdleCheckers callbacks waiting for p.mu
  afterFuncs,            \* registered request cleanups that have not run
  done,                  \* requests whose context is done
  canceled,              \* checkers with WasCanceled()
  globals,               \* GetGlobalDiagnostics() of the checker in slot 0
  seen                   \* what the last TakeNewGlobalDiagnostics covered

poolVars == <<checkers, heldBy, lastReleased, fileAssociations, requestAssociations,
              cleanupTimer, discarded>>
apiVars  == <<persistentChecker, persistentHeld>>
semVars  == <<diagSem, querySem, persistentSem>>
diagVars == <<globalDiagAccumulated, globalDiagChanged, globalDiagCount, globals, seen>>
callVars == <<pc, call, slot, inst>>
envVars  == <<callbacks, afterFuncs, done, canceled>>
vars == <<poolVars, apiVars, semVars, diagVars, callVars, envVars>>

Ages == {"zero", "recent", "expired"}   \* of lastReleased[i]: unset, < or >= IdleTimeout ago
PCs  == {"idle", "claim", "reacquire", "acquire", "using", "unlocked"}
NoCall == [kind |-> "none", request |-> NoRequest, file |-> NoFile]
Calls  == [kind : {"diagnostics", "query", "api"}, request : Requests \cup {NoRequest},
           file : Files \cup {NoFile}] \cup {NoCall}

TypeOK ==
  /\ checkers \in [Slots -> Instances \cup {None}]
  /\ heldBy \in [Slots -> Requests \cup {Anonymous, NotHeld}]
  /\ lastReleased \in [Slots -> Ages]
  /\ fileAssociations \in [Files -> QuerySlots \cup {NoSlot}]
  /\ requestAssociations \in [Requests -> Slots \cup {NoSlot}]
  /\ cleanupTimer \in {"off", "armed"} /\ discarded \in BOOLEAN
  /\ persistentChecker \in Instances \cup {None} /\ persistentHeld \in BOOLEAN
  /\ diagSem \in SUBSET Callers /\ querySem \in SUBSET Callers
  /\ persistentSem \in SUBSET Callers
  /\ globalDiagAccumulated \in SUBSET Diags /\ globalDiagChanged \in BOOLEAN
  /\ globalDiagCount \in Nat
  /\ globals \in SUBSET Diags /\ seen \in SUBSET Diags
  /\ pc \in [Callers -> PCs] /\ call \in [Callers -> Calls]
  /\ slot \in [Callers -> Slots \cup {NoSlot}]
  /\ inst \in [Callers -> Instances \cup {None}]
  /\ callbacks \in Nat /\ afterFuncs \in [Requests -> Nat]
  /\ done \in SUBSET Requests /\ canceled \in SUBSET Instances

\* newCheckerPool
Init ==
  /\ checkers = [i \in Slots |-> None] /\ heldBy = [i \in Slots |-> NotHeld]
  /\ lastReleased = [i \in Slots |-> "zero"]
  /\ fileAssociations = [f \in Files |-> NoSlot]
  /\ requestAssociations = [r \in Requests |-> NoSlot]
  /\ cleanupTimer = "off" /\ discarded = FALSE
  /\ persistentChecker = None /\ persistentHeld = FALSE
  /\ diagSem = {} /\ querySem = {} /\ persistentSem = {}
  /\ globalDiagAccumulated = {} /\ globalDiagChanged = FALSE /\ globalDiagCount = 0
  /\ globals = {} /\ seen = {}
  /\ pc = [c \in Callers |-> "idle"] /\ call = [c \in Callers |-> NoCall]
  /\ slot = [c \in Callers |-> NoSlot] /\ inst = [c \in Callers |-> None]
  /\ callbacks = 0 /\ afterFuncs = [r \in Requests |-> 0]
  /\ done = {} /\ canceled = {}

-----------------------------------------------------------------------------
(* Definitions named Bad... are what a plausible mistake would make of the      *)
(* definition that follows them; nothing else refers to them.                   *)

HoldTag(r) == IF r = NoRequest THEN Anonymous ELSE r

Present(i) == checkers[i] # None
Idle(i)    == Present(i) /\ heldBy[i] = NotHeld

BadWasCanceled(c) == FALSE
WasCanceled(c) == inst[c] \in canceled

\* Checker objects nobody refers to any more: checker.NewChecker returns one.
Unreferenced == Instances \ ({checkers[i] : i \in Slots} \cup {persistentChecker}
                              \cup {inst[c] : c \in Callers})

\* An object the pool has dropped stands for a new checker the next time it is created.
Forget(x) ==
  canceled' = IF x \in {checkers'[i] : i \in Slots} \cup {persistentChecker'}
              THEN canceled ELSE canceled \ {x}

\* scheduleCleanupLocked, for the slots as they are after the critical section:
\* armed iff some checker is present, not held and has been released.
TimerFor(ch, held, last) ==
  IF \E i \in Slots : ch[i] # None /\ held[i] = NotHeld /\ last[i] # "zero"
  THEN "armed" ELSE "off"

\* disposeCheckerLocked for the slots of D: the associations that name them go too.
Without(assoc, D) == [k \in DOMAIN assoc |-> IF assoc[k] \in D THEN NoSlot ELSE assoc[k]]

BadForgetAssociations(D) == fileAssociations' = Without(fileAssociations, D)
                            /\ UNCHANGED requestAssociations
ForgetAssociations(D) == /\ fileAssociations' = Without(fileAssociations, D)
                         /\ requestAssociations' = Without(requestAssociations, D)

BadResetCount(D) == UNCHANGED globalDiagCount
ResetCount(D) == globalDiagCount' = IF DiagIndex \in D THEN 0 ELSE globalDiagCount

Dispose(D) ==
  /\ checkers' = [i \in Slots |-> IF i \in D THEN None ELSE checkers[i]]
  /\ heldBy' = [i \in Slots |-> IF i \in D THEN NotHeld ELSE heldBy[i]]
  /\ lastReleased' = [i \in Slots |-> IF i \in D THEN "zero" ELSE lastReleased[i]]
  /\ ResetCount(D)
  /\ ForgetAssociations(D)

\* mergeGlobalDiagnosticsFromCheckerLocked
MergeGlobalDiagnostics ==
  IF Cardinality(globals) = globalDiagCount
  THEN UNCHANGED <<globalDiagAccumulated, globalDiagChanged, globalDiagCount>>
  ELSE /\ globalDiagCount' = Cardinality(globals)
       /\ globalDiagAccumulated' = globalDiagAccumulated \cup globals
       /\ globalDiagChanged' = (globalDiagChanged \/ ~(globals \subseteq globalDiagAccumulated))

\* The last lines of every acquisition: remember the slot for the request unless
\* it has one, and register the context's AfterFunc that forgets it.
Associate(r, i) ==
  IF r # NoRequest /\ requestAssociations[r] = NoSlot
  THEN /\ requestAssociations' = [requestAssociations EXCEPT ![r] = i]
       /\ afterFuncs' = [afterFuncs EXCEPT ![r] = @ + 1]
  ELSE UNCHANGED <<requestAssociations, afterFuncs>>

\* Goroutine c returns from GetChecker with checker x of slot i.
Return(c, i, x) ==
  /\ pc' = [pc EXCEPT ![c] = "using"]
  /\ slot' = [slot EXCEPT ![c] = i]
  /\ inst' = [inst EXCEPT ![c] = x]
  /\ UNCHANGED call

-----------------------------------------------------------------------------
\* GetChecker(ctx, file) is called.
Call(c, k, r, f) ==
  /\ pc[c] = "idle"
  /\ r \in Requests => afterFuncs[r] < MaxCleanups
  /\ pc' = [pc EXCEPT ![c] = "claim"]
  /\ call' = [call EXCEPT ![c] = [kind |-> k, request |-> r, file |-> f]]
  /\ UNCHANGED <<poolVars, apiVars, semVars, diagVars, slot, inst, envVars>>

\* Room in a channel of capacity 1, and in querySem.
BadOneToken(sem) == Cardinality(sem) < 2
OneToken(sem) == sem = {}
QueryToken == Cardinality(querySem) < MaxCheckers - 1

\* sem <- struct{}{}
ClaimSemaphore(c) ==
  /\ pc[c] = "claim"
  /\ \/ /\ call[c].kind = "diagnostics"
        /\ OneToken(diagSem) /\ diagSem' = diagSem \cup {c}
        /\ UNCHANGED <<querySem, persistentSem>>
     \/ /\ call[c].kind = "query"
        /\ QueryToken
        /\ querySem' = querySem \cup {c}
        /\ UNCHANGED <<diagSem, persistentSem>>
     \/ /\ call[c].kind = "api"
        /\ OneToken(persistentSem) /\ persistentSem' = persistentSem \cup {c}
        /\ UNCHANGED <<diagSem, querySem>>
  /\ pc' = [pc EXCEPT ![c] = IF call[c].kind = "api" \/ call[c].request = NoRequest
                              THEN "acquire" ELSE "reacquire"]
  /\ UNCHANGED <<poolVars, apiVars, diagVars, call, slot, inst, envVars>>

\* Does slot i belong to the category a goroutine asked for?
RightCategory(k, i) == IF k = "diagnostics" THEN i = DiagIndex ELSE i \in QuerySlots

\* tryReacquireForRequest, under p.mu: reuse the idle checker of the request, or
\* forget an association that is of the wrong category or names a nil checker.
TryReacquire(c) ==
  LET r == call[c].request
      i == requestAssociations[r] IN
  /\ pc[c] = "reacquire"
  /\ \/ /\ i # NoSlot /\ RightCategory(call[c].kind, i) /\ Idle(i)
        /\ heldBy' = [heldBy EXCEPT ![i] = r]
        /\ Return(c, i, checkers[i])
        /\ UNCHANGED requestAssociations
     \/ /\ i # NoSlot /\ ~(RightCategory(call[c].kind, i) /\ Present(i))
        /\ requestAssociations' = [requestAssociations EXCEPT ![r] = NoSlot]
        /\ pc' = [pc EXCEPT ![c] = "acquire"]
        /\ UNCHANGED <<heldBy, call, slot, inst>>
     \/ /\ i = NoSlot \/ (RightCategory(call[c].kind, i) /\ Present(i) /\ ~Idle(i))
        /\ pc' = [pc EXCEPT ![c] = "acquire"]
        /\ UNCHANGED <<heldBy, requestAssociations, call, slot, inst>>
  /\ UNCHANGED <<checkers, lastReleased, fileAssociations, cleanupTimer, discarded,
                 apiVars, semVars, diagVars, envVars>>

\* getDiagnosticsChecker, under p.mu.  heldBy is not consulted: diagSem protects it.
AcquireDiagnostics(c) ==
  LET r == call[c].request IN
  /\ pc[c] = "acquire" /\ call[c].kind = "diagnostics"
  /\ \/ /\ Present(DiagIndex)
        /\ Return(c, DiagIndex, checkers[DiagIndex])
        /\ UNCHANGED <<checkers, globals>>
     \/ \E x \in Unreferenced :
          /\ ~Present(DiagIndex)
          /\ checkers' = [checkers EXCEPT ![DiagIndex] = x]
          /\ globals' = {}
          /\ Return(c, DiagIndex, x)
  /\ heldBy' = [heldBy EXCEPT ![DiagIndex] = HoldTag(r)]
  /\ Associate(r, DiagIndex)
  /\ UNCHANGED <<lastReleased, fileAssociations, cleanupTimer, discarded, apiVars, semVars,
                 globalDiagAccumulated, globalDiagChanged, globalDiagCount, seen,
                 callbacks, done, canceled>>

\* The checker last used for the call's file, when it is idle.
FileMatch(f, i) == f # NoFile /\ fileAssociations[f] = i /\ i \in QuerySlots /\ Idle(i)

\* findOrCreateQueryCheckerLocked prefers the first idle checker to the first empty slot.
FirstIdle(i)  == i \in QuerySlots /\ Idle(i) /\ \A j \in 1 .. i - 1 : ~Idle(j)
FirstEmpty(i) == /\ i \in QuerySlots /\ ~Present(i)
                 /\ \A j \in 1 .. i - 1 : Present(j)
                 /\ \A j \in QuerySlots : ~Idle(j)

\* getQueryChecker, under p.mu.
AcquireQuery(c) ==
  LET r == call[c].request
      f == call[c].file
      fileHit == \E i \in QuerySlots : FileMatch(f, i) IN
  /\ pc[c] = "acquire" /\ call[c].kind = "query"
  /\ \E i \in QuerySlots :
       /\ \/ /\ FileMatch(f, i)
             /\ Return(c, i, checkers[i])
             /\ UNCHANGED <<checkers, fileAssociations>>
          \/ /\ ~fileHit /\ FirstIdle(i)
             /\ Return(c, i, checkers[i])
             /\ fileAssociations' = [g \in Files |-> IF g = f THEN i ELSE fileAssociations[g]]
             /\ UNCHANGED checkers
          \/ \E x \in Unreferenced :
             /\ ~fileHit /\ FirstEmpty(i)
             /\ Return(c, i, x)
             /\ checkers' = [checkers EXCEPT ![i] = x]
             /\ fileAssociations' = [g \in Files |-> IF g = f THEN i ELSE fileAssociations[g]]
       /\ heldBy' = [heldBy EXCEPT ![i] = HoldTag(r)]
       /\ Associate(r, i)
  /\ UNCHANGED <<lastReleased, cleanupTimer, discarded, apiVars, semVars, diagVars,
                 callbacks, done, canceled>>

\* getPersistentChecker, under p.mu.
AcquirePersistent(c) ==
  /\ pc[c] = "acquire" /\ call[c].kind = "api"
  /\ \/ persistentChecker # None /\ UNCHANGED persistentChecker
     \/ persistentChecker = None /\ persistentChecker' \in Unreferenced
  /\ persistentHeld' = TRUE
  /\ Return(c, NoSlot, persistentChecker')
  /\ UNCHANGED <<poolVars, semVars, diagVars, envVars>>

-----------------------------------------------------------------------------
\* A holder's context is done in the middle of a check: the checker notes it was
\* canceled (core.WasCanceled), and panics if it is ever used again.
CancelChecker(c) ==
  /\ pc[c] = "using" /\ call[c].request \in done \cup {NoRequest}
  /\ canceled' = canceled \cup {inst[c]}
  /\ UNCHANGED <<poolVars, apiVars, semVars, diagVars, callVars, callbacks, afterFuncs, done>>

\* The holder of the diagnostics checker checks something that yields a global diagnostic.
ProduceGlobalDiagnostic(c) ==
  /\ pc[c] = "using" /\ call[c].kind = "diagnostics"
  /\ \E d \in Diags : globals' = globals \cup {d}
  /\ UNCHANGED <<poolVars, apiVars, semVars, globalDiagAccumulated, globalDiagChanged,
                 globalDiagCount, seen, callVars, envVars>>

\* debug.Assert of disposeCheckerLocked, for the release of a canceled checker.
BadDisposeAssert(c) == checkers[slot[c]] = inst[c] /\ heldBy[slot[c]] = NotHeld
DisposeAssert(c) == checkers[slot[c]] = inst[c]

\* The release function of createRelease, up to p.mu.Unlock().  sync.OnceFunc runs
\* it once however often it is called.
Release(c) ==
  LET i == slot[c] IN
  /\ pc[c] = "using" /\ call[c].kind # "api"
  /\ \/ /\ WasCanceled(c) /\ DisposeAssert(c)
        /\ Dispose({i})
        /\ UNCHANGED <<cleanupTimer, globalDiagAccumulated, globalDiagChanged>>
     \/ /\ ~WasCanceled(c)
        /\ IF i = DiagIndex THEN MergeGlobalDiagnostics
           ELSE UNCHANGED <<globalDiagAccumulated, globalDiagChanged, globalDiagCount>>
        /\ heldBy' = [heldBy EXCEPT ![i] = NotHeld]
        /\ lastReleased' = [lastReleased EXCEPT ![i] = "recent"]
        /\ cleanupTimer' = IF discarded THEN cleanupTimer
                           ELSE TimerFor(checkers, heldBy', lastReleased')
        /\ UNCHANGED <<checkers, fileAssociations, requestAssociations>>
  /\ pc' = [pc EXCEPT ![c] = "unlocked"]
  /\ slot' = [slot EXCEPT ![c] = NoSlot] /\ inst' = [inst EXCEPT ![c] = None]
  /\ UNCHANGED <<discarded, apiVars, semVars, globals, seen, call, callbacks, afterFuncs, done>>
  /\ Forget(inst[c])

DropsApiChecker(c) == WasCanceled(c) /\ persistentChecker = inst[c]

\* The release function of getPersistentChecker, up to p.mu.Unlock().
ReleasePersistent(c) ==
  /\ pc[c] = "using" /\ call[c].kind = "api"
  /\ persistentHeld' = FALSE
  /\ persistentChecker' = IF DropsApiChecker(c)
                          THEN None ELSE persistentChecker
  /\ pc' = [pc EXCEPT ![c] = "unlocked"]
  /\ slot' = [slot EXCEPT ![c] = NoSlot] /\ inst' = [inst EXCEPT ![c] = None]
  /\ UNCHANGED <<poolVars, semVars, diagVars, call, callbacks, afterFuncs, done>>
  /\ Forget(inst[c])

\* <-p.diagSem, <-p.querySem or <-p.persistentSem, after p.mu was unlocked.
ReleaseSemaphore(c) ==
  /\ pc[c] = "unlocked"
  /\ diagSem' = diagSem \ {c} /\ querySem' = querySem \ {c}
  /\ persistentSem' = persistentSem \ {c}
  /\ pc' = [pc EXCEPT ![c] = "idle"] /\ call' = [call EXCEPT ![c] = NoCall]
  /\ UNCHANGED <<poolVars, apiVars, diagVars, slot, inst, envVars>>

-----------------------------------------------------------------------------
\* IdleTimeout elapses since checker i was released.
Expire(i) ==
  /\ lastReleased[i] = "recent"
  /\ lastReleased' = [lastReleased EXCEPT ![i] = "expired"]
  /\ UNCHANGED <<checkers, heldBy, fileAssociations, requestAssociations, cleanupTimer,
                 discarded, apiVars, semVars, diagVars, callVars, envVars>>

\* The cleanup timer fires: its goroutine is about to lock p.mu.
TimerFires ==
  /\ cleanupTimer = "armed" /\ callbacks < MaxCallbacks
  /\ cleanupTimer' = "off" /\ callbacks' = callbacks + 1
  /\ UNCHANGED <<checkers, heldBy, lastReleased, fileAssociations, requestAssociations,
                 discarded, apiVars, semVars, diagVars, callVars, afterFuncs, done, canceled>>

BadIdleTooLong(i) == Present(i) /\ lastReleased[i] = "expired"
IdleTooLong(i) == Idle(i) /\ lastReleased[i] = "expired"

BadRearm == UNCHANGED cleanupTimer
Rearm == cleanupTimer' = TimerFor(checkers', heldBy', lastReleased')

BailsOut == discarded

\* cleanupIdleCheckers
CleanupIdleCheckers ==
  /\ callbacks > 0 /\ callbacks' = callbacks - 1
  /\ \/ /\ BailsOut
        /\ UNCHANGED <<poolVars, globalDiagCount>>
     \/ /\ ~BailsOut
        /\ Dispose({i \in Slots : IdleTooLong(i)})
        /\ Rearm
        /\ UNCHANGED discarded
  /\ UNCHANGED <<apiVars, semVars, globalDiagAccumulated, globalDiagChanged, globals, seen,
                 callVars, afterFuncs, done, canceled>>

\* Discard: a new program has replaced this one.
Discard ==
  /\ ~discarded
  /\ discarded' = TRUE /\ cleanupTimer' = "off"
  /\ UNCHANGED <<checkers, heldBy, lastReleased, fileAssociations, requestAssociations,
                 apiVars, semVars, diagVars, callVars, envVars>>

\* The context of request r is done: it was answered or canceled.
FinishRequest(r) ==
  /\ r \notin done /\ done' = done \cup {r}
  /\ UNCHANGED <<poolVars, apiVars, semVars, diagVars, callVars, callbacks, afterFuncs, canceled>>

\* registerRequestCleanup runs on the request's own context, never a detached one.
ContextDone(r) == r \in done

\* The AfterFunc of registerRequestCleanup.
RequestCleanup(r) ==
  /\ ContextDone(r) /\ afterFuncs[r] > 0
  /\ afterFuncs' = [afterFuncs EXCEPT ![r] = @ - 1]
  /\ requestAssociations' = [requestAssociations EXCEPT ![r] = NoSlot]
  /\ UNCHANGED <<checkers, heldBy, lastReleased, fileAssociations, cleanupTimer, discarded,
                 apiVars, semVars, diagVars, callVars, callbacks, done, canceled>>

\* TakeNewGlobalDiagnostics followed, when it says so, by GetGlobalDiagnostics.
TakeNewGlobalDiagnostics ==
  /\ globalDiagChanged
  /\ globalDiagChanged' = FALSE /\ seen' = globalDiagAccumulated
  /\ UNCHANGED <<poolVars, apiVars, semVars, globalDiagAccumulated, globalDiagCount, globals,
                 callVars, envVars>>

-----------------------------------------------------------------------------
\* What a goroutine inside the pool does of its own accord.
Step(c) ==
  \/ ClaimSemaphore(c) \/ TryReacquire(c)
  \/ AcquireDiagnostics(c) \/ AcquireQuery(c) \/ AcquirePersistent(c)
  \/ Release(c) \/ ReleasePersistent(c) \/ ReleaseSemaphore(c)

Next ==
  \/ \E c \in Callers :
       \/ \E k \in Kinds, r \in Requests \cup {NoRequest}, f \in Files \cup {NoFile} :
            Call(c, k, r, f)
       \/ Step(c)
       \/ CancelChecker(c) \/ ProduceGlobalDiagnostic(c)
  \/ \E i \in Slots : Expire(i)
  \/ TimerFires \/ CleanupIdleCheckers \/ Discard
  \/ \E r \in Requests : FinishRequest(r) \/ RequestCleanup(r)
  \/ TakeNewGlobalDiagnostics

Spec == Init /\ [][Next]_vars

\* Blocked senders of a Go channel are served in the order they came, so a claim that
\* is enabled again and again happens (SF); a holder returns its checker (every caller
\* defers the release function), and timers and AfterFuncs run.
Fairness ==
  /\ \A c \in Callers : WF_vars(Step(c)) /\ SF_vars(ClaimSemaphore(c))
  /\ \A i \in Slots : WF_vars(Expire(i))
  /\ WF_vars(TimerFires) /\ WF_vars(CleanupIdleCheckers)
  /\ \A r \in Requests : WF_vars(RequestCleanup(r))

FairSpec == Spec /\ Fairness
-----------------------------------------------------------------------------
(* Properties. *)

Using(c) == pc[c] = "using"

\* A checker is not safe for concurrent use: no two goroutines between the return of
\* GetChecker and their release ever hold the same one.  The diagnostics and API
\* checkers rely on their semaphores alone, query checkers on heldBy as well.
ExclusiveUse ==
  \A c, d \in Callers : Using(c) /\ Using(d) /\ c # d => inst[c] # inst[d]

\* The panic of findOrCreateQueryCheckerLocked is unreachable: a goroutine that holds
\* a query token finds a slot that nobody holds, although the token is returned only
\* after the slot and two critical sections lie between the token and the slot.
QuerySlotAvailable ==
  \A c \in Callers : pc[c] = "acquire" /\ call[c].kind = "query"
                       => \E i \in QuerySlots : heldBy[i] = NotHeld

\* debug.Assert(p.checkers[index] == c) in disposeCheckerLocked: while a goroutine holds
\* a checker neither the idle cleanup nor another release takes it out of its slot.
HeldCheckerStays ==
  \A c \in Callers : Using(c) =>
    IF call[c].kind = "api" THEN persistentChecker = inst[c] /\ persistentHeld
    ELSE checkers[slot[c]] = inst[c] /\ heldBy[slot[c]] = HoldTag(call[c].request)

\* A canceled checker panics on reuse: none is left where the next caller would find it.
CanceledNeverReused ==
  /\ \A i \in Slots : Idle(i) => checkers[i] \notin canceled
  /\ persistentHeld \/ persistentChecker \notin canceled

\* Associations never outlive what they name: a request or a file is associated only
\* with a checker that exists, and a request's association has an AfterFunc left that
\* will remove it, so that requestAssociations does not grow without bound.
AssociationsLive ==
  /\ \A f \in Files : fileAssociations[f] # NoSlot => Present(fileAssociations[f])
  /\ \A r \in Requests : requestAssociations[r] # NoSlot =>
       Present(requestAssociations[r]) /\ afterFuncs[r] > 0

\* While the pool is current, an idle checker has a timer or a callback that will look
\* at it: the callback of a timer that fired too early rearms it.
IdleIsWatched ==
  ~discarded => \A i \in Slots : Idle(i) => cleanupTimer = "armed" \/ callbacks > 0

\* Whoever polls TakeNewGlobalDiagnostics misses nothing: while the diagnostics checker is
\* idle and nothing is flagged, its global diagnostics have all been seen, across instances
\* and although their number alone tells new ones from old.
GlobalsSeen == Idle(DiagIndex) /\ ~globalDiagChanged => globals \subseteq seen

\* The bookkeeping of the pool, for as long as it lives.
Upkeep == TypeOK /\ QuerySlotAvailable /\ IdleIsWatched /\ GlobalsSeen /\ AssociationsLive

\* A discarded pool keeps its idle checkers, for API clients that still resolve handles:
\* not even a callback that was in flight when Discard stopped the timer disposes of one.
DiscardedKeepsCheckers ==
  [][discarded => \A i \in Slots : Idle(i) => checkers'[i] = checkers[i]]_vars

\* A goroutine that waits for a semaphore is served, whatever the others do.
WaiterServed == \A c \in Callers : pc[c] = "claim" ~> Using(c)

\* An idle checker of a current pool is not kept for ever: it is used again or disposed of.
IdleReclaimed ==
  \A i \in Slots : Idle(i) /\ ~discarded ~> ~Idle(i) \/ discarded

\* The association of a request that is done disappears.
RequestForgotten ==
  \A r \in Requests : r \in done ~> requestAssociations[r] = NoSlot

\* What nobody uses any more is not kept for ever: idle checkers and associations.
Reclaimed == IdleReclaimed /\ RequestForgotten
=============================================================================
