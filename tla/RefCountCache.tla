----------------------------- MODULE RefCountCache -----------------------------
(***************************************************************************)
(* The cache of parsed source files                                        *)
(* (tsc/internal/project/refcountcache.go), shared by the programs of all  *)
(* snapshots and by the leases of API sessions.                            *)
(*                                                                         *)
(* An entry is looked up in a concurrent map and then locked by its own    *)
(* mutex: between the two it may be removed.  A new entry is put into the  *)
(* map while it is locked and its value is produced under that lock.       *)
(* What happens between locking and unlocking an existing entry is one     *)
(* step, since nobody else reads or writes the entry meanwhile.            *)
(***************************************************************************)
EXTENDS Integers, FiniteSets

CONSTANTS
  Users,           \* programs and leases; each holds a key at most once
  Keys,            \* identities: name, options and hash of a file
  Values,          \* the objects produced for a key
  Entries,         \* entry objects; one is reused only after all forgot it
  None,            \* nil, and the zero value of a file
  DisableDeletion, \* RefCountCacheOptions.DisableDeletion
  MayFail          \* bound: produce of AcquireOrError may return an error

ASSUME SetsAssumption ==
  IsFiniteSet(Users) /\ None \notin Users \cup Values \cup Entries
ASSUME OptionsAssumption == DisableDeletion \in BOOLEAN /\ MayFail \in BOOLEAN

VARIABLES
  entries,   \* RefCountCache.entries
  lockedBy,  \* the user that holds an entry's mutex
  value,     \* refCountCacheEntry.value
  refCount,  \* refCountCacheEntry.refCount
  held,      \* the keys that users hold
  got,       \* the value a user got for a key
  go,        \* the operation of a user
  missed     \* history: Ref has not found a live entry

entryVars == <<entries, lockedBy, value, refCount>>
vars == <<entryVars, held, got, go, missed>>

\* An operation on key; entry is the one it has looked up.  Ref adds a reference on
\* behalf of lender, whose own reference keeps the entry alive.
Idle == [op |-> "none", pc |-> "idle", key |-> None, entry |-> None, lender |-> None]
Begin(op, pc, k, lender) == [op |-> op, pc |-> pc, key |-> k, entry |-> None, lender |-> lender]

Operations == [op : {"none", "acquire", "orError", "existing", "ref", "deref"},
               pc : {"idle", "store", "load", "lock", "produce"},
               key : Keys \cup {None}, entry : Entries \cup {None}, lender : Users \cup {None}]

TypeOK ==
  /\ entries \in [Keys -> Entries \cup {None}] /\ lockedBy \in [Entries -> Users \cup {None}]
  /\ value \in [Entries -> Values \cup {None}] /\ refCount \in [Entries -> Nat]
  /\ held \subseteq Users \X Keys /\ got \in [Users \X Keys -> Values \cup {None}]
  /\ go \in [Users -> Operations]
  /\ missed \in BOOLEAN

Init ==
  /\ entries = [k \in Keys |-> None] /\ lockedBy = [e \in Entries |-> None]
  /\ value = [e \in Entries |-> None] /\ refCount = [e \in Entries |-> 0]
  /\ held = {} /\ got = [uk \in Users \X Keys |-> None]
  /\ go = [u \in Users |-> Idle] /\ missed = FALSE

Key(u)    == go[u].key
Entry(u)  == go[u].entry

-----------------------------------------------------------------------------
(* Definitions named Bad... are what a plausible mistake would make of the      *)
(* definition that follows them; nothing else refers to them.                   *)
(*                                                                              *)
(* Users begin operations.                                                      *)

\* A program is built, or a lease is taken: Acquire, AcquireOrError.
StartAcquire(u) ==
  /\ go[u] = Idle
  /\ \E k \in Keys, op \in {"acquire", "orError"} :
       <<u, k>> \notin held /\ go' = [go EXCEPT ![u] = Begin(op, "store", k, None)]
  /\ UNCHANGED <<entryVars, held, got, missed>>

\* An API session asks for a file that another one has: AcquireExisting.
StartExisting(u) ==
  /\ go[u] = Idle
  /\ \E k \in Keys :
       <<u, k>> \notin held /\ go' = [go EXCEPT ![u] = Begin("existing", "load", k, None)]
  /\ UNCHANGED <<entryVars, held, got, missed>>

\* A program is cloned: it has the files of the old program, and Ref counts it for each of
\* them.  The snapshot with the old program is kept until the clone is made.
StartRef(u) ==
  /\ go[u] = Idle
  /\ \E k \in Keys, w \in Users :
       /\ <<u, k>> \notin held /\ <<w, k>> \in held
       /\ got' = [got EXCEPT ![<<u, k>>] = got[<<w, k>>]]
       /\ go' = [go EXCEPT ![u] = Begin("ref", "load", k, w)]
  /\ UNCHANGED <<entryVars, held, missed>>

\* A program whose files are being added to a clone of it is not disposed of.
Lent(u, k) == \E w \in Users : go[w].op = "ref" /\ go[w].lender = u /\ Key(w) = k

\* A program or a lease is disposed of: Deref.
StartDeref(u) ==
  /\ go[u] = Idle
  /\ \E k \in Keys :
       /\ <<u, k>> \in held /\ ~Lent(u, k)
       /\ held' = held \ {<<u, k>>} /\ got' = [got EXCEPT ![<<u, k>>] = None]
       /\ go' = [go EXCEPT ![u] = Begin("deref", "load", k, None)]
  /\ UNCHANGED <<entryVars, missed>>

-----------------------------------------------------------------------------
(* Lookups.                                                                     *)

FreeEntries == {e \in Entries : (\A k \in Keys : entries[k] # e) /\ (\A u \in Users : Entry(u) # e)}

\* loadOrStoreNewLockedEntry stores an entry of its own, locked and referred to once.
LockNew(e, u) == [lockedBy EXCEPT ![e] = u]
StoreEntry(u) ==
  /\ go[u].pc = "store" /\ entries[Key(u)] = None
  /\ \E e \in FreeEntries :
       /\ entries' = [entries EXCEPT ![Key(u)] = e]
       /\ lockedBy' = LockNew(e, u)
       /\ value' = [value EXCEPT ![e] = None] /\ refCount' = [refCount EXCEPT ![e] = 1]
       /\ go' = [go EXCEPT ![u].pc = "produce", ![u].entry = e]
  /\ UNCHANGED <<held, got, missed>>

\* An entry is found, to be locked.
FindEntry(u) ==
  /\ go[u].pc \in {"store", "load"} /\ entries[Key(u)] # None
  /\ go' = [go EXCEPT ![u].pc = "lock", ![u].entry = entries[Key(u)]]
  /\ UNCHANGED <<entryVars, held, got, missed>>

\* AcquireExisting, Ref and Deref find no entry; Ref panics.
MissEntry(u) ==
  /\ go[u].pc = "load" /\ entries[Key(u)] = None
  /\ missed' = (missed \/ go[u].op = "ref")
  /\ go' = [go EXCEPT ![u] = Idle]
  /\ UNCHANGED <<entryVars, held, got>>

-----------------------------------------------------------------------------
(* Locked.                                                                      *)

Locks(u) == go[u].pc = "lock" /\ lockedBy[Entry(u)] = None

\* An entry without references was removed from the map while u waited for its lock.
BadDead(e) == FALSE
Dead(e) == refCount[e] <= 0 /\ ~DisableDeletion

\* loadOrStoreNewLockedEntry starts again.
Retry(u) ==
  /\ Locks(u) /\ go[u].op \in {"acquire", "orError"} /\ Dead(Entry(u))
  /\ go' = [go EXCEPT ![u].pc = "store", ![u].entry = None]
  /\ UNCHANGED <<entryVars, held, got, missed>>

\* AcquireExisting gives up on a dead entry.  Ref would make a new entry of its value;
\* RefFindsEntry says that it never has to.
GiveUp(u) ==
  /\ Locks(u) /\ go[u].op \in {"existing", "ref"} /\ Dead(Entry(u))
  /\ missed' = (missed \/ go[u].op = "ref")
  /\ go' = [go EXCEPT ![u] = Idle]
  /\ UNCHANGED <<entryVars, held, got>>

\* What an operation returns.  Who calls Ref has the value already.
BadYields(u) == Values
Yields(u) == IF go[u].op = "ref" THEN {got[<<u, Key(u)>>]} ELSE {value[Entry(u)]}

\* One more reference.
Join(u) ==
  /\ Locks(u) /\ go[u].op # "deref" /\ ~Dead(Entry(u))
  /\ refCount' = [refCount EXCEPT ![Entry(u)] = @ + 1]
  /\ held' = held \cup {<<u, Key(u)>>}
  /\ \E v \in Yields(u) : got' = [got EXCEPT ![<<u, Key(u)>>] = v]
  /\ go' = [go EXCEPT ![u] = Idle]
  /\ UNCHANGED <<entries, lockedBy, value, missed>>

\* Deref: one reference less, and the last one removes the entry.
Decremented(e) == refCount[e] - 1
Deref(u) ==
  /\ Locks(u) /\ go[u].op = "deref"
  /\ LET n == Decremented(Entry(u)) IN
     /\ refCount' = [refCount EXCEPT ![Entry(u)] = n]
     /\ entries' = (IF n <= 0 /\ ~DisableDeletion THEN [entries EXCEPT ![Key(u)] = None] ELSE entries)
  /\ go' = [go EXCEPT ![u] = Idle]
  /\ UNCHANGED <<lockedBy, value, held, got, missed>>

-----------------------------------------------------------------------------
(* Producing, under the new entry's lock.                                       *)

Unlocked(e) == [lockedBy EXCEPT ![e] = None]

\* The value is stored and returned.
Produce(u) ==
  /\ go[u].pc = "produce"
  /\ \E v \in Values :
       /\ value' = [value EXCEPT ![Entry(u)] = v]
       /\ got' = [got EXCEPT ![<<u, Key(u)>>] = v]
  /\ held' = held \cup {<<u, Key(u)>>}
  /\ lockedBy' = Unlocked(Entry(u))
  /\ go' = [go EXCEPT ![u] = Idle]
  /\ UNCHANGED <<entries, refCount, missed>>

\* produce returns an error: AcquireOrError takes the entry back.
ProduceFails(u) ==
  /\ go[u].pc = "produce" /\ go[u].op = "orError" /\ MayFail
  /\ refCount' = [refCount EXCEPT ![Entry(u)] = 0]
  /\ entries' = [entries EXCEPT ![Key(u)] = None]
  /\ lockedBy' = Unlocked(Entry(u))
  /\ go' = [go EXCEPT ![u] = Idle]
  /\ UNCHANGED <<value, held, got, missed>>

-----------------------------------------------------------------------------
Start(u) == StartAcquire(u) \/ StartExisting(u) \/ StartRef(u) \/ StartDeref(u)
Step(u) ==
  \/ StoreEntry(u) \/ FindEntry(u) \/ MissEntry(u)
  \/ Retry(u) \/ GiveUp(u) \/ Join(u) \/ Deref(u)
  \/ Produce(u) \/ ProduceFails(u)
Next == \E u \in Users : Start(u) \/ Step(u)

Spec == Init /\ [][Next]_vars

-----------------------------------------------------------------------------
(* Properties.                                                                  *)

\* The promise of Acquire: everybody who has a file at the same time has the same
\* object, and keeps it whoever comes and goes.
Holders(k) == {u \in Users : <<u, k>> \in held}
Shared(k)  == IF Holders(k) = {} THEN None ELSE got[<<CHOOSE u \in Holders(k) : TRUE, k>>]
Promise == INSTANCE SharedValues WITH
  holders <- [k \in Keys |-> Holders(k)],
  shared  <- [k \in Keys |-> Shared(k)]
SharesValues == Promise!Spec

\* Who counts: those that hold the key, are producing it, or have yet to give it back.
Counted(k) ==
  {u \in Users : \/ <<u, k>> \in held
                 \/ Key(u) = k /\ (go[u].pc = "produce" \/ go[u].op = "deref")}

\* The count of the entry in the map is the number of its users: a key that is used has
\* a live entry, and the entry of a key that nobody uses is gone (Deref: "when the
\* refcount reaches zero, the entry is removed from the cache").
CountExact ==
  \A k \in Keys :
    IF entries[k] = None THEN Counted(k) = {}
    ELSE Counted(k) # {} /\ refCount[entries[k]] = Cardinality(Counted(k))

\* Ref finds a live entry: it neither panics nor stores an entry a second time.
RefFindsEntry == ~missed

\* The counts are right whatever is deleted, found and added again meanwhile.
CountsKept == TypeOK /\ CountExact /\ RefFindsEntry
=============================================================================
