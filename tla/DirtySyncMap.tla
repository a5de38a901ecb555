---------------------------- MODULE DirtySyncMap ----------------------------
(***************************************************************************)
(* One key of the copy-on-write map (project/dirty/syncmap.go) on which a  *)
(* snapshot is built.  The goroutines of one build each hold a handle to   *)
(* an entry object; every goroutine that finds the key only in the base    *)
(* map makes an object of its own, and the first object to be changed is   *)
(* put into the dirty map.  The other objects lose that race and become    *)
(* proxies of the winner.  Keys do not interact, so one key is enough.     *)
(*                                                                         *)
(* The value is what the callers keep in such a map: a set of marks (the   *)
(* projects and files that retain a configuration) and a text that is read *)
(* from disk when it is stale (a cached file).                             *)
(***************************************************************************)
EXTENDS Naturals, FiniteSets

CONSTANTS Goroutines,       \* the goroutines of one build
          MaxOps,           \* bound: operations of one goroutine
          MaxText,          \* bound: changes of the file on disk
          Nil               \* no object, and no value

VARIABLES inBase,           \* SyncMap.base has the key
          dirty,            \* SyncMap.dirty: the object stored for the key, or Nil
          entry,            \* the entry object each goroutine may have made
          cell,             \* the values the objects point to
          handle,           \* the object a goroutine's handle refers to, or Nil
          pc,               \* where each goroutine is
          op,               \* the operation it executes
          cur,              \* the object the operation has been routed to
          locks,            \* the objects whose mutex it holds
          buf,              \* the text it has read from disk
          out,              \* the file handle its last reload returned
          own,              \* its last finished Retain/Release left a mark
          ops,              \* operations begun
          disk              \* the file on disk

mapVars == <<inBase, dirty, entry, cell, handle, pc, op, cur, locks, buf, out, own, ops, disk>>

Base == "base"
Gone == MaxText + 1                \* no text: the file does not exist
Texts == 0..MaxText
Cells == Goroutines \cup {Base}
Ops == {"retain", "release", "reload", "settle"}

Value == [marks : SUBSET Goroutines, stale : BOOLEAN, text : Texts]

ASSUME GoroutinesAssumption == Goroutines \cap {Base, Nil} = {}
ASSUME BoundsAssumption == MaxOps \in Nat /\ MaxText \in Nat
ASSUME NilAssumption == Nil \notin Value

NoEntry == [val |-> Base, dirty |-> FALSE, del |-> FALSE, proxy |-> Nil]
Fresh == [marks |-> {}, stale |-> TRUE, text |-> 0]

MapTypeOK ==
    /\ inBase \in BOOLEAN
    /\ dirty \in Goroutines \cup {Nil}
    /\ entry \in [Goroutines -> [val : Cells, dirty : BOOLEAN, del : BOOLEAN,
                                 proxy : Goroutines \cup {Nil}]]
    /\ cell \in [Cells -> Value]
    /\ handle \in [Goroutines -> Goroutines \cup {Nil}]
    /\ pc \in [Goroutines -> {"start", "ready", "locked", "won", "lost", "reading", "read",
                              "check", "return", "done"}]
    /\ op \in [Goroutines -> Ops]
    /\ cur \in [Goroutines -> Goroutines \cup {Nil}]
    /\ locks \in [Goroutines -> SUBSET Goroutines]
    /\ buf \in [Goroutines -> Texts \cup {Gone}]
    /\ out \in [Goroutines -> [cell : Cells, text : Texts \cup {Gone}] \cup {Nil}]
    /\ own \in [Goroutines -> BOOLEAN]
    /\ ops \in [Goroutines -> 0..MaxOps]
    /\ disk \in Texts \cup {Gone}

MapInit ==
    /\ inBase \in BOOLEAN
    /\ dirty = Nil
    /\ entry = [g \in Goroutines |-> NoEntry]
    /\ \E s \in BOOLEAN, m \in SUBSET Goroutines :
          /\ cell = [c \in Cells |-> [Fresh EXCEPT !.stale = s, !.marks = m]]
          /\ own = [g \in Goroutines |-> inBase /\ g \in m]
    /\ handle = [g \in Goroutines |-> Nil]
    /\ pc = [g \in Goroutines |-> "start"]
    /\ op = [g \in Goroutines |-> "retain"]
    /\ cur = [g \in Goroutines |-> Nil]
    /\ locks = [g \in Goroutines |-> {}]
    /\ buf = [g \in Goroutines |-> Gone]
    /\ out = [g \in Goroutines |-> Nil]
    /\ ops = [g \in Goroutines |-> 0]
    /\ disk = 0

Free(o) == \A g \in Goroutines : o \notin locks[g]

ValueOf(o) == cell[entry[o].val]
-----------------------------------------------------------------------------
(* Getting a handle.  An object found in the dirty map is locked to read   *)
(* its delete flag.                                                        *)

\* BUG: a key that has been deleted is made anew.
BadFromDirty(g) ==
    /\ Free(dirty)
    /\ handle' = [handle EXCEPT ![g] = dirty]
    /\ pc' = [pc EXCEPT ![g] = "ready"]
    /\ entry' = [entry EXCEPT ![dirty].del = FALSE]
    /\ UNCHANGED <<dirty, cell>>

FromDirty(g) ==
    /\ Free(dirty)
    /\ IF entry[dirty].del
       THEN /\ pc' = [pc EXCEPT ![g] = "done"]
            /\ UNCHANGED handle
       ELSE /\ handle' = [handle EXCEPT ![g] = dirty]
            /\ pc' = [pc EXCEPT ![g] = "ready"]
    /\ UNCHANGED <<dirty, entry, cell>>

CleanEntry(g) ==
    /\ handle' = [handle EXCEPT ![g] = g]
    /\ pc' = [pc EXCEPT ![g] = "ready"]
    /\ UNCHANGED <<dirty, entry, cell>>

Load(g) ==
    /\ pc[g] = "start"
    /\ \/ dirty # Nil /\ FromDirty(g)
       \/ dirty = Nil /\ inBase /\ CleanEntry(g)
       \/ /\ dirty = Nil /\ ~inBase
          /\ pc' = [pc EXCEPT ![g] = "done"]
          /\ UNCHANGED <<dirty, entry, cell, handle>>
    /\ UNCHANGED <<inBase, op, cur, locks, buf, out, own, ops, disk>>

LoadOrStore(g) ==
    /\ pc[g] = "start"
    /\ \/ dirty # Nil /\ FromDirty(g)
       \/ dirty = Nil /\ inBase /\ CleanEntry(g)
       \/ /\ dirty = Nil /\ ~inBase
          /\ dirty' = g
          /\ entry' = [entry EXCEPT ![g] = [NoEntry EXCEPT !.val = g, !.dirty = TRUE]]
          /\ cell' = [cell EXCEPT ![g] = Fresh]
          /\ handle' = [handle EXCEPT ![g] = g]
          /\ pc' = [pc EXCEPT ![g] = "ready"]
    /\ UNCHANGED <<inBase, op, cur, locks, buf, out, own, ops, disk>>
-----------------------------------------------------------------------------
(* One operation: lock the handle's object, follow its proxy, evaluate the *)
(* condition, then change or delete.                                       *)

LockHandle(g) ==
    /\ pc[g] = "ready"
    /\ ops[g] < MaxOps
    /\ Free(handle[g])
    /\ op' \in {[op EXCEPT ![g] = o] : o \in {"retain", "release", "reload"}}
    /\ locks' = [locks EXCEPT ![g] = {handle[g]}]
    /\ cur' = [cur EXCEPT ![g] = handle[g]]
    /\ ops' = [ops EXCEPT ![g] = @ + 1]
    /\ pc' = [pc EXCEPT ![g] = "locked"]
    /\ UNCHANGED <<inBase, dirty, entry, cell, handle, buf, out, own, disk>>

\* The operation of a proxy is the same operation on the object it stands for.
Route(g) ==
    /\ pc[g] = "locked"
    /\ entry[cur[g]].proxy # Nil
    /\ Free(entry[cur[g]].proxy)
    /\ locks' = [locks EXCEPT ![g] = @ \cup {entry[cur[g]].proxy}]
    /\ cur' = [cur EXCEPT ![g] = entry[cur[g]].proxy]
    /\ UNCHANGED <<inBase, dirty, entry, cell, handle, pc, op, buf, out, own, ops, disk>>

Routed(g) == pc[g] = "locked" /\ entry[cur[g]].proxy = Nil

\* The condition under which the operation changes anything, evaluated on the
\* value of the object it was routed to: the callers' ChangeIf conditions read
\* e.value, the functions passed to Locked read the value of a live entry.
Wanted(g) ==
    LET e == entry[cur[g]] IN
    CASE op[g] = "retain"  -> g \notin ValueOf(cur[g]).marks
      [] op[g] = "release" -> g \in ValueOf(cur[g]).marks
      [] op[g] \in {"reload", "settle"} -> ~e.del /\ ValueOf(cur[g]).stale

Deletes(g) == op[g] = "settle" /\ buf[g] = Gone

\* What the function passed to Change does to the value.
BadApplied(g, v) ==
    CASE op[g] = "retain"  -> [v EXCEPT !.marks = @ \cup {g}, !.stale = FALSE]
      [] op[g] = "release" -> [v EXCEPT !.marks = @ \ {g}]
      [] op[g] = "settle"  -> [v EXCEPT !.text = buf[g], !.stale = FALSE]

Applied(g, v) ==
    CASE op[g] = "retain"  -> [v EXCEPT !.marks = @ \cup {g}]
      [] op[g] = "release" -> [v EXCEPT !.marks = @ \ {g}]
      [] op[g] = "settle"  -> [v EXCEPT !.text = buf[g], !.stale = FALSE]

\* Unlock everything; a reload goes on to read the entry's value.
Finish(g) ==
    /\ locks' = [locks EXCEPT ![g] = {}]
    /\ cur' = [cur EXCEPT ![g] = Nil]
    /\ own' = [own EXCEPT ![g] = IF op[g] = "retain" THEN TRUE
                                 ELSE IF op[g] = "release" THEN FALSE ELSE @]
    /\ pc' = [pc EXCEPT ![g] = IF op[g] \in {"retain", "release"} THEN "ready" ELSE "check"]

\* The condition does not hold: nothing changes.
Skip(g) ==
    /\ Routed(g)
    /\ ~Wanted(g)
    /\ Finish(g)
    /\ UNCHANGED <<inBase, dirty, entry, cell, handle, op, buf, out, ops, disk>>

\* reloadEntryIfNeeded: the file is read outside the lock.
Unlock(g) ==
    /\ Routed(g)
    /\ op[g] = "reload" /\ Wanted(g)
    /\ locks' = [locks EXCEPT ![g] = {}]
    /\ cur' = [cur EXCEPT ![g] = Nil]
    /\ pc' = [pc EXCEPT ![g] = "reading"]
    /\ UNCHANGED <<inBase, dirty, entry, cell, handle, op, buf, out, own, ops, disk>>

ReadFile(g) ==
    /\ pc[g] = "reading"
    /\ buf' = [buf EXCEPT ![g] = disk]
    /\ op' = [op EXCEPT ![g] = "settle"]
    /\ pc' = [pc EXCEPT ![g] = "read"]
    /\ UNCHANGED <<inBase, dirty, entry, cell, handle, cur, locks, out, own, ops, disk>>

Relock(g) ==
    /\ pc[g] = "read"
    /\ Free(handle[g])
    /\ locks' = [locks EXCEPT ![g] = {handle[g]}]
    /\ cur' = [cur EXCEPT ![g] = handle[g]]
    /\ pc' = [pc EXCEPT ![g] = "locked"]
    /\ UNCHANGED <<inBase, dirty, entry, cell, handle, op, buf, out, own, ops, disk>>

\* changeLocked / deleteLocked on an object that is already dirty.
InPlace(g) ==
    /\ Routed(g)
    /\ op[g] # "reload" /\ Wanted(g)
    /\ entry[cur[g]].dirty
    /\ IF Deletes(g)
       THEN /\ entry' = [entry EXCEPT ![cur[g]].del = TRUE]
            /\ UNCHANGED cell
       ELSE /\ cell' = [cell EXCEPT ![entry[cur[g]].val] = Applied(g, @)]
            /\ UNCHANGED entry
    /\ Finish(g)
    /\ UNCHANGED <<inBase, dirty, handle, op, buf, out, ops, disk>>

\* dirty.LoadOrStore: put the object into the dirty map, or find the winner.
Store(g) ==
    /\ Routed(g)
    /\ op[g] # "reload" /\ Wanted(g)
    /\ ~entry[cur[g]].dirty
    /\ IF dirty = Nil
       THEN dirty' = cur[g] /\ pc' = [pc EXCEPT ![g] = "won"]
       ELSE pc' = [pc EXCEPT ![g] = "lost"] /\ UNCHANGED dirty
    /\ UNCHANGED <<inBase, entry, cell, handle, op, cur, locks, buf, out, own, ops, disk>>

\* The value of object w once it is the goroutine's to change: cloned into a
\* cell of its own unless that has been done.
Cloned(w) == IF entry[w].dirty THEN entry[w].val ELSE w

Won(g) ==
    /\ pc[g] = "won"
    /\ IF Deletes(g)
       THEN /\ entry' = [entry EXCEPT ![cur[g]].del = TRUE]
            /\ UNCHANGED cell
       ELSE LET w == cur[g] IN
            /\ cell' = [cell EXCEPT ![Cloned(w)] = Applied(g, ValueOf(w))]
            /\ entry' = [entry EXCEPT ![w].val = Cloned(w), ![w].dirty = TRUE]
    /\ Finish(g)
    /\ UNCHANGED <<inBase, dirty, handle, op, buf, out, ops, disk>>

\* The value a change made through the losing object e starts from.
BadLatest(w, e) == ValueOf(e)

Latest(w, e) == ValueOf(w)

\* What the object of a goroutine that lost the race becomes.
BadProxy(w, val, isDirty, del) == [val |-> val, dirty |-> isDirty, del |-> del, proxy |-> Nil]

Proxy(w, val, isDirty, del) == [val |-> val, dirty |-> isDirty, del |-> del, proxy |-> w]

Lost(g) ==
    /\ pc[g] = "lost"
    /\ Free(dirty)
    /\ LET w == dirty  e == cur[g] IN
       IF Deletes(g)
       THEN /\ entry' = [entry EXCEPT ![w].del = TRUE,
                                      ![e] = Proxy(w, entry[w].val, entry[w].dirty, TRUE)]
            /\ UNCHANGED cell
       ELSE /\ cell' = [cell EXCEPT ![Cloned(w)] = Applied(g, Latest(w, e))]
            /\ entry' = [entry EXCEPT ![w].val = Cloned(w), ![w].dirty = TRUE,
                                      ![e] = Proxy(w, Cloned(w), TRUE, entry[w].del)]
    /\ Finish(g)
    /\ UNCHANGED <<inBase, dirty, handle, op, buf, out, ops, disk>>
-----------------------------------------------------------------------------
(* The end of reloadEntryIfNeeded: Value() is called twice, once to check  *)
(* for nil and once for the result.                                        *)

Holder(g) == IF entry[handle[g]].proxy = Nil THEN handle[g] ELSE entry[handle[g]].proxy

\* A caller that is told the file is gone is through with the entry.  It must
\* be: an object deleted while clean sits in the dirty map without being dirty,
\* and a further change through the same handle would wait for its own mutex.
BadWhenGone == "ready"

WhenGone == "done"

CheckValue(g) ==
    /\ pc[g] = "check"
    /\ Free(handle[g]) /\ Free(Holder(g))
    /\ pc' = [pc EXCEPT ![g] = IF entry[Holder(g)].del THEN WhenGone ELSE "return"]
    /\ out' = [out EXCEPT ![g] = Nil]
    /\ UNCHANGED <<inBase, dirty, entry, cell, handle, op, cur, locks, buf, own, ops, disk>>

ReturnValue(g) ==
    /\ pc[g] = "return"
    /\ Free(handle[g]) /\ Free(Holder(g))
    /\ pc' = [pc EXCEPT ![g] = "ready"]
    /\ out' = [out EXCEPT ![g] =
                 [cell |-> entry[Holder(g)].val,
                  text |-> IF entry[Holder(g)].del THEN Gone ELSE ValueOf(Holder(g)).text]]
    /\ UNCHANGED <<inBase, dirty, entry, cell, handle, op, cur, locks, buf, own, ops, disk>>

\* The goroutine is through with the key.
Leave(g) ==
    /\ pc[g] = "ready"
    /\ pc' = [pc EXCEPT ![g] = "done"]
    /\ UNCHANGED <<inBase, dirty, entry, cell, handle, op, cur, locks, buf, out, own, ops, disk>>

\* Environment: somebody writes or deletes the file.
WriteFile ==
    /\ disk # Gone
    /\ disk' \in {disk + 1, Gone}
    /\ UNCHANGED <<inBase, dirty, entry, cell, handle, pc, op, cur, locks, buf, out, own, ops>>
-----------------------------------------------------------------------------
Get(g) == Load(g) \/ LoadOrStore(g)

Locking(g) == LockHandle(g) \/ Relock(g) \/ Route(g) \/ Skip(g) \/ Unlock(g) \/ ReadFile(g)

Changing(g) == InPlace(g) \/ Store(g) \/ Won(g) \/ Lost(g)

Reading(g) == CheckValue(g) \/ ReturnValue(g)

Done == \A g \in Goroutines : pc[g] = "done"

MapNext ==
    \/ \E g \in Goroutines : Get(g) \/ Locking(g) \/ Changing(g) \/ Reading(g) \/ Leave(g)
    \/ WriteFile

\* The scheduler runs every goroutine; nothing says that the file is written.
Fairness == \A g \in Goroutines :
    WF_mapVars(Get(g) \/ Locking(g) \/ Changing(g) \/ Reading(g) \/ Leave(g))

MapSpec == MapInit /\ [][MapNext]_mapVars /\ Fairness
-----------------------------------------------------------------------------
(* SyncMap.finalize: what the build leaves under the key.                  *)

Finalized ==
    IF dirty = Nil THEN IF inBase THEN cell[Base] ELSE Nil
    ELSE IF entry[dirty].del THEN Nil
    ELSE IF entry[dirty].dirty THEN ValueOf(dirty)
    ELSE IF inBase THEN cell[Base] ELSE Nil

\* Copy on write: the snapshot the build started from keeps its value.
BaseUntouched == [][cell'[Base] = cell[Base]]_mapVars

\* The object in the dirty map says that the key is deleted.
Deleted == dirty # Nil /\ entry[dirty].del

\* All objects of the key together are one value that changes atomically: a
\* change made through an object that lost the race is a change of the winner
\* ("all mutations are routed through the one that actually exists in the
\* dirty map"), and a deleted key stays deleted: nobody who looks it up gets a
\* handle of it or adds it again, no change through an object that somebody
\* already has brings it back (Load, LoadOrStore, changeLocked).
Abstract == INSTANCE AtomicEntry WITH value <- Finalized, deleted <- Deleted, Absent <- Nil
\* The snapshot the build started from does not see it.
OneValue == Abstract!Spec /\ BaseUntouched

\* A mark survives everything the other goroutines do: between operations a
\* goroutine finds its mark exactly as its own last operation left it, in the
\* value that will be finalized, unless the key was deleted.
MarksKept ==
    \A g \in Goroutines :
        pc[g] \in {"ready", "done"} /\ handle[g] # Nil /\ Finalized # Nil =>
            (g \in Finalized.marks) = own[g]

\* A stale file does not survive a reload: when a goroutine has settled what it
\* read, the value that will be finalized has been reloaded or deleted, through
\* whichever object the goroutine did it.
Settled ==
    \A g \in Goroutines :
        pc[g] \in {"check", "return"} /\ Finalized # Nil => ~Finalized.stale

\* Two mutexes are held at once by a goroutine that lost the race or follows
\* its proxy, and no order of them is written down: nobody waits for ever.
Finishes == <>Done

\* A file that reloadEntryIfNeeded has returned is the file the build keeps:
\* its text does not change under the caller that got it, and it is not a nil
\* file ("another goroutine already reloaded it").
HandedOutStable ==
    \A g \in Goroutines : out[g] # Nil => cell[out[g].cell].text = out[g].text
=============================================================================
