-------------------------- MODULE SharedMapsProofs --------------------------
(***************************************************************************)
(* The two maps that many goroutines share: the cache of parsed files      *)
(* (RefCountCache) and the copy-on-write map on which a snapshot is built  *)
(* (DirtySyncMap).                                                         *)
(*                                                                         *)
(* The counts of the cache of parsed files are exact and everybody who     *)
(* holds a file has the same object, for any number of users, keys and     *)
(* entries, while entries are deleted when their last user leaves.  The    *)
(* argument: whoever waits for an entry waits for the one in the map or    *)
(* for a dead one (UserOK); an entry is locked by its producer alone       *)
(* (LockOK); and users and their entry agree on the value (HeldOK).        *)
(*                                                                         *)
(* However many goroutines build a snapshot together, the entry objects    *)
(* that they have of one key of a dirty.SyncMap are one value that changes *)
(* atomically, and nobody's change of it is lost.                          *)
(***************************************************************************)
EXTENDS RefCountCache, DirtySyncMap, FiniteSetTheorems, TLAPS

Makers == {"acquire", "orError"}

\* An entry without references that is in the map no more.
Vanished(e) == refCount[e] = 0 /\ \A k \in Keys : entries[k] # e

\* Whoever lends its reference to a Ref has it for as long as that takes.
LenderOK(u) ==
  /\ go[u].lender \in Users /\ <<go[u].lender, Key(u)>> \in held
  /\ got[<<u, Key(u)>>] = got[<<go[u].lender, Key(u)>>]

UserOK(u) ==
  /\ go[u].pc = "idle" => go[u] = Idle
  /\ go[u].pc # "idle" => go[u].op # "none" /\ Key(u) \in Keys /\ <<u, Key(u)>> \notin held
  /\ go[u].pc = "store" => go[u].op \in Makers
  /\ go[u].pc = "load" => go[u].op \notin Makers
  /\ go[u].pc = "lock" => Entry(u) \in Entries /\ (entries[Key(u)] = Entry(u) \/ Vanished(Entry(u)))
  /\ go[u].pc = "lock" /\ go[u].op \in {"ref", "deref"} => entries[Key(u)] = Entry(u)
  /\ go[u].pc = "produce" =>
       /\ go[u].op \in Makers /\ Entry(u) \in Entries
       /\ entries[Key(u)] = Entry(u) /\ lockedBy[Entry(u)] = u /\ refCount[Entry(u)] = 1
  /\ go[u].op = "ref" => LenderOK(u)

\* The mutex of an entry is held over several steps by its producer only.
LockOK(e) == lockedBy[e] # None => go[lockedBy[e]].pc = "produce" /\ Entry(lockedBy[e]) = e

\* Two keys have different entries.
Distinct == \A j, k \in Keys : entries[j] = entries[k] /\ entries[j] # None => j = k

\* An entry in the map has a value once it is unlocked.
KeyOK(k) == entries[k] # None /\ lockedBy[entries[k]] = None => value[entries[k]] \in Values

HeldOK ==
  \A u \in Users, k \in Keys : <<u, k>> \in held =>
    lockedBy[entries[k]] = None /\ got[<<u, k>>] = value[entries[k]]

IInv ==
  /\ TypeOK /\ CountExact /\ RefFindsEntry
  /\ \A u \in Users : UserOK(u)
  /\ \A e \in Entries : LockOK(e)
  /\ Distinct
  /\ \A k \in Keys : KeyOK(k)
  /\ HeldOK

-----------------------------------------------------------------------------
(* Counting.                                                                    *)

\* Finitely many users are counted.
LEMMA CountedFinite ==
  ASSUME NEW k \in Keys
  PROVE  Counted(k) \subseteq Users /\ IsFiniteSet(Counted(k)) /\ Cardinality(Counted(k)) \in Nat
  BY SetsAssumption, FS_Subset, FS_CardinalityType DEF Counted

\* A set with one element has no other.
LEMMA OnlyOne ==
  ASSUME NEW S, IsFiniteSet(S), Cardinality(S) = 1, NEW x \in S, NEW y \in S
  PROVE  x = y
  <1>1. IsFiniteSet(S \ {x}) /\ Cardinality(S \ {x}) = Cardinality(S) - 1
    BY FS_RemoveElement
  <1>2. Cardinality(S \ {x}) = 0
    BY <1>1
  <1>3. S \ {x} = {}
    BY <1>1, <1>2, FS_EmptySet
  <1> QED BY <1>3

\* Whoever is counted keeps the entry of its key in the map.
LEMMA CountedEntry ==
  ASSUME TypeOK, CountExact, NEW k \in Keys, NEW u \in Users, u \in Counted(k)
  PROVE  /\ entries[k] \in Entries /\ refCount[entries[k]] = Cardinality(Counted(k))
         /\ refCount[entries[k]] > 0
  <1>1. entries[k] # None
    BY DEF CountExact
  <1>2. entries[k] \in Entries /\ refCount[entries[k]] = Cardinality(Counted(k))
    BY <1>1 DEF CountExact, TypeOK
  <1>3. Cardinality(Counted(k)) # 0
    BY CountedFinite, FS_EmptySet
  <1> QED BY <1>2, <1>3, CountedFinite

-----------------------------------------------------------------------------
(* The fields of operations.                                                    *)

\* The fields of an operation that begins.
LEMMA Fields ==
  ASSUME TypeOK, NEW u \in Users
  PROVE  /\ go[u] \in Operations
         /\ go[u].op \in {"none", "acquire", "orError", "existing", "ref", "deref"}
         /\ go[u].pc \in {"idle", "store", "load", "lock", "produce"}
         /\ go[u].key \in Keys \cup {None} /\ go[u].entry \in Entries \cup {None}
         /\ go[u].lender \in Users \cup {None}
  BY DEF TypeOK, Operations

\* The fields of no operation.
LEMMA IdleFields ==
  /\ Idle \in Operations /\ Idle.op = "none" /\ Idle.pc = "idle"
  BY DEF Idle, Operations

\* The initial state.
LEMMA InitInv == Init => IInv
<1> SUFFICES ASSUME Init PROVE IInv
  OBVIOUS
<1>1. TypeOK
  BY IdleFields DEF Init, TypeOK
<1>2. \A u \in Users : go[u] = Idle
  BY DEF Init
<1>3. \A k \in Keys : entries[k] = None /\ Counted(k) = {}
  BY <1>2, IdleFields DEF Init, Counted
<1>4. CountExact
  BY <1>3 DEF CountExact
<1>5. \A u \in Users : UserOK(u)
  BY <1>2, IdleFields DEF UserOK
<1>6. \A e \in Entries : LockOK(e)
  BY DEF Init, LockOK
<1> QED
  BY <1>1, <1>3, <1>4, <1>5, <1>6 DEF IInv, Init, RefFindsEntry, Distinct, KeyOK, HeldOK

-----------------------------------------------------------------------------
(* Steps that leave the entries alone.                                          *)

\* User u goes on to operation o, and no entry is touched.
LEMMA QuietStep ==
  ASSUME IInv, NEW u \in Users, NEW o \in Operations, UNCHANGED entryVars,
         go' = [go EXCEPT ![u] = o], go[u].pc # "produce", o.pc # "produce",
         held' \subseteq Users \X Keys, got' \in [Users \X Keys -> Values \cup {None}],
         \A k \in Keys : <<u, k>> \in held' \/ (o.key = k /\ o.op = "deref") <=> u \in Counted(k),
         \A k \in Keys : <<u, k>> \in held' => <<u, k>> \in held /\ got'[<<u, k>>] = got[<<u, k>>],
         \A w \in Users \ {u}, k \in Keys :
           (<<w, k>> \in held' <=> <<w, k>> \in held) /\ got'[<<w, k>>] = got[<<w, k>>],
         \A w \in Users \ {u} :
           go[w].op = "ref" /\ go[w].lender = u =>
             <<u, Key(w)>> \in held' /\ got'[<<u, Key(w)>>] = got[<<u, Key(w)>>],
         UserOK(u)', missed' = FALSE
  PROVE  IInv'
<1>a. /\ TypeOK /\ CountExact /\ Distinct /\ HeldOK
      /\ \A w \in Users : UserOK(w)
      /\ \A e \in Entries : LockOK(e)
      /\ \A k \in Keys : KeyOK(k)
  BY DEF IInv
<1>b. go'[u] = o /\ \A w \in Users \ {u} : go'[w] = go[w]
  BY <1>a DEF TypeOK
<1>c. entries' = entries /\ lockedBy' = lockedBy /\ value' = value /\ refCount' = refCount
  BY DEF entryVars
<1>1. TypeOK'
  BY <1>a, <1>c DEF TypeOK
<1>2. ASSUME NEW k \in Keys PROVE Counted(k)' = Counted(k)
  <2>1. ASSUME NEW w \in Users PROVE w \in Counted(k)' <=> w \in Counted(k)
    <3>1. CASE w = u
      BY <1>b, <3>1 DEF Counted, Key
    <3>2. CASE w # u
      BY <1>b, <3>2 DEF Counted, Key
    <3> QED BY <3>1, <3>2
  <2> QED BY <2>1 DEF Counted
<1>3. CountExact'
  BY <1>a, <1>c, <1>2 DEF CountExact
<1>4. ASSUME NEW w \in Users PROVE UserOK(w)'
  <2>1. CASE w = u
    BY <2>1
  <2>2. CASE w # u
    <3>1. UserOK(w) /\ go'[w] = go[w]
      BY <1>a, <1>b, <2>2
    <3>2. go[w].op = "ref" => LenderOK(w)'
      <4> SUFFICES ASSUME go[w].op = "ref" PROVE LenderOK(w)'
        OBVIOUS
      <4>1. LenderOK(w) /\ Key(w) \in Keys
        BY <3>1, IdleFields DEF UserOK
      <4>2. got'[<<w, Key(w)>>] = got[<<w, Key(w)>>]
        BY <2>2, <4>1
      <4>3. CASE go[w].lender = u
        BY <3>1, <4>1, <4>2, <4>3, <2>2 DEF LenderOK, Key
      <4>4. CASE go[w].lender # u
        BY <3>1, <4>1, <4>2, <4>4 DEF LenderOK, Key
      <4> QED BY <4>3, <4>4
    <3>3. go[w].pc # "idle" => <<w, Key(w)>> \notin held'
      BY <3>1, <2>2 DEF UserOK
    <3> QED BY <3>1, <3>2, <3>3, <1>c DEF UserOK, Key, Entry, Vanished
  <2> QED BY <2>1, <2>2
<1>5. ASSUME NEW e \in Entries PROVE LockOK(e)'
  <2>1. LockOK(e) /\ lockedBy[e] \in Users \cup {None}
    BY <1>a DEF TypeOK
  <2> QED BY <1>b, <1>c, <2>1 DEF LockOK, Entry
<1>6. Distinct' /\ \A k \in Keys : KeyOK(k)'
  BY <1>a, <1>c DEF Distinct, KeyOK
<1>7. HeldOK'
  <2> SUFFICES ASSUME NEW w \in Users, NEW k \in Keys, <<w, k>> \in held'
               PROVE  lockedBy[entries[k]] = None /\ got'[<<w, k>>] = value[entries[k]]
    BY <1>c DEF HeldOK
  <2>1. <<w, k>> \in held /\ got'[<<w, k>>] = got[<<w, k>>]
    OBVIOUS
  <2> QED BY <1>a, <2>1 DEF HeldOK
<1> QED BY <1>1, <1>3, <1>4, <1>5, <1>6, <1>7 DEF IInv, RefFindsEntry

\* What IInv says of one user.
LEMMA UserFacts ==
  ASSUME IInv, NEW u \in Users
  PROVE  /\ TypeOK /\ CountExact /\ missed = FALSE /\ UserOK(u)
         /\ u \in DOMAIN go /\ go[u] \in Operations
         /\ held \subseteq Users \X Keys /\ got \in [Users \X Keys -> Values \cup {None}]
         /\ \A k \in Keys : u \in Counted(k) <=>
              <<u, k>> \in held \/ (go[u].key = k /\ (go[u].pc = "produce" \/ go[u].op = "deref"))
  BY DEF IInv, RefFindsEntry, TypeOK, Counted, Key

\* A user that is asked for its reference while it holds it keeps the entry alive.
LEMMA LenderCounts ==
  ASSUME IInv, NEW u \in Users, go[u].op = "ref"
  PROVE  /\ Key(u) \in Keys /\ go[u].lender \in Users \ {u}
         /\ go[u].lender \in Counted(Key(u))
<1>1. UserOK(u) /\ go[u].pc # "idle"
  BY UserFacts, IdleFields DEF UserOK
<1>2. Key(u) \in Keys /\ <<u, Key(u)>> \notin held /\ LenderOK(u)
  BY <1>1 DEF UserOK
<1> QED BY <1>2 DEF LenderOK, Counted

\* Acquire begins without touching an entry.
LEMMA StartAcquireInv ==
  ASSUME IInv, NEW u \in Users, StartAcquire(u)
  PROVE  IInv'
<1>1. PICK k \in Keys, maker \in {"acquire", "orError"} :
        <<u, k>> \notin held /\ go' = [go EXCEPT ![u] = Begin(maker, "store", k, None)]
  BY DEF StartAcquire
<1>2. UNCHANGED <<entryVars, held, got, missed>> /\ go[u] = Idle
  BY DEF StartAcquire
<1> DEFINE o == Begin(maker, "store", k, None)
<1>3. o \in Operations /\ o.op = maker /\ o.pc = "store" /\ o.key = k /\ go'[u] = o
  BY <1>1, UserFacts DEF Begin, Operations
<1>4. UserOK(u)'
  BY <1>1, <1>2, <1>3 DEF UserOK, Key, Makers
<1>5. \A w \in Users \ {u} : go[w].op = "ref" => <<go[w].lender, Key(w)>> \in held
  BY DEF IInv, UserOK, LenderOK
<1>6. go' = [go EXCEPT ![u] = o] /\ missed' = FALSE
  BY <1>1, <1>2, UserFacts
<1> HIDE DEF o
<1>7. \A j \in Keys : <<u, j>> \in held \/ (o.key = j /\ o.op = "deref") <=> u \in Counted(j)
  BY <1>2, <1>3, UserFacts, IdleFields
<1> QED BY <1>2, <1>3, <1>4, <1>5, <1>6, <1>7, UserFacts, IdleFields, QuietStep

\* So does AcquireExisting.
LEMMA StartExistingInv ==
  ASSUME IInv, NEW u \in Users, StartExisting(u)
  PROVE  IInv'
<1>1. PICK k \in Keys :
        <<u, k>> \notin held /\ go' = [go EXCEPT ![u] = Begin("existing", "load", k, None)]
  BY DEF StartExisting
<1>2. UNCHANGED <<entryVars, held, got, missed>> /\ go[u] = Idle
  BY DEF StartExisting
<1> DEFINE o == Begin("existing", "load", k, None)
<1>3. o \in Operations /\ o.op = "existing" /\ o.pc = "load" /\ o.key = k /\ go'[u] = o
  BY <1>1, UserFacts DEF Begin, Operations
<1>4. UserOK(u)'
  BY <1>1, <1>2, <1>3 DEF UserOK, Key, Makers
<1>5. \A w \in Users \ {u} : go[w].op = "ref" => <<go[w].lender, Key(w)>> \in held
  BY DEF IInv, UserOK, LenderOK
<1>6. go' = [go EXCEPT ![u] = o] /\ missed' = FALSE
  BY <1>1, <1>2, UserFacts
<1> HIDE DEF o
<1>7. \A j \in Keys : <<u, j>> \in held \/ (o.key = j /\ o.op = "deref") <=> u \in Counted(j)
  BY <1>2, <1>3, UserFacts, IdleFields
<1> QED BY <1>2, <1>3, <1>4, <1>5, <1>6, <1>7, UserFacts, IdleFields, QuietStep

\* Ref begins with a lender that holds the key.
LEMMA StartRefInv ==
  ASSUME IInv, NEW u \in Users, StartRef(u)
  PROVE  IInv'
<1>1. PICK k \in Keys, w \in Users :
        /\ <<u, k>> \notin held /\ <<w, k>> \in held
        /\ got' = [got EXCEPT ![<<u, k>>] = got[<<w, k>>]]
        /\ go' = [go EXCEPT ![u] = Begin("ref", "load", k, w)]
  BY DEF StartRef
<1>2. UNCHANGED <<entryVars, held, missed>> /\ go[u] = Idle
  BY DEF StartRef
<1> DEFINE o == Begin("ref", "load", k, w)
<1>3. /\ o \in Operations /\ o.op = "ref" /\ o.pc = "load" /\ o.key = k /\ o.lender = w
      /\ go'[u] = o
  BY <1>1, UserFacts DEF Begin, Operations
<1>4. /\ got' \in [Users \X Keys -> Values \cup {None}] /\ got'[<<u, k>>] = got[<<w, k>>]
      /\ \A x \in Users, j \in Keys : <<x, j>> # <<u, k>> => got'[<<x, j>>] = got[<<x, j>>]
  BY <1>1, UserFacts
<1>5. UserOK(u)'
  BY <1>1, <1>2, <1>3, <1>4 DEF UserOK, Key, Makers, LenderOK
<1>6. \A x \in Users \ {u} : go[x].op = "ref" => Key(x) \in Keys /\ <<go[x].lender, Key(x)>> \in held
  BY IdleFields DEF IInv, UserOK, LenderOK
<1>7. go' = [go EXCEPT ![u] = o] /\ missed' = FALSE
  BY <1>1, <1>2, UserFacts
<1> HIDE DEF o
<1>8. \A j \in Keys : <<u, j>> \in held' \/ (o.key = j /\ o.op = "deref") <=> u \in Counted(j)
  BY <1>2, <1>3, UserFacts, IdleFields
<1>9. \A j \in Keys : <<u, j>> \in held' => <<u, j>> \in held /\ got'[<<u, j>>] = got[<<u, j>>]
  BY <1>1, <1>2, <1>4
<1>10. \A x \in Users \ {u}, j \in Keys :
         (<<x, j>> \in held' <=> <<x, j>> \in held) /\ got'[<<x, j>>] = got[<<x, j>>]
  BY <1>2, <1>4
<1>11. \A x \in Users \ {u} : go[x].op = "ref" /\ go[x].lender = u =>
         <<u, Key(x)>> \in held' /\ got'[<<u, Key(x)>>] = got[<<u, Key(x)>>]
  BY <1>1, <1>2, <1>4, <1>6
<1>12. go[u].pc # "produce" /\ o.pc # "produce" /\ held' \subseteq Users \X Keys
  BY <1>2, <1>3, <1>4, UserFacts, IdleFields
<1> QED BY <1>2, <1>3, <1>4, <1>5, <1>7, <1>8, <1>9, <1>10, <1>11, <1>12, QuietStep

\* Deref begins with a user that holds the key, and gives it up.
LEMMA StartDerefInv ==
  ASSUME IInv, NEW u \in Users, StartDeref(u)
  PROVE  IInv'
<1>1. PICK k \in Keys :
        /\ <<u, k>> \in held /\ ~Lent(u, k)
        /\ held' = held \ {<<u, k>>} /\ got' = [got EXCEPT ![<<u, k>>] = None]
        /\ go' = [go EXCEPT ![u] = Begin("deref", "load", k, None)]
  BY DEF StartDeref
<1>2. UNCHANGED <<entryVars, missed>> /\ go[u] = Idle
  BY DEF StartDeref
<1> DEFINE o == Begin("deref", "load", k, None)
<1>3. o \in Operations /\ o.op = "deref" /\ o.pc = "load" /\ o.key = k /\ go'[u] = o
  BY <1>1, UserFacts DEF Begin, Operations
<1>4. /\ got' \in [Users \X Keys -> Values \cup {None}] /\ held' \subseteq Users \X Keys
      /\ \A x \in Users, j \in Keys : <<x, j>> # <<u, k>> =>
           got'[<<x, j>>] = got[<<x, j>>] /\ (<<x, j>> \in held' <=> <<x, j>> \in held)
  BY <1>1, UserFacts
<1>5. UserOK(u)'
  BY <1>1, <1>2, <1>3 DEF UserOK, Key, Makers
<1>6. \A x \in Users \ {u} : go[x].op = "ref" /\ go[x].lender = u =>
        Key(x) \in Keys /\ Key(x) # k /\ <<u, Key(x)>> \in held
  BY <1>1, IdleFields DEF IInv, UserOK, LenderOK, Lent
<1>7. go' = [go EXCEPT ![u] = o] /\ missed' = FALSE
  BY <1>1, <1>2, UserFacts
<1> HIDE DEF o
<1>8. \A j \in Keys : <<u, j>> \in held' \/ (o.key = j /\ o.op = "deref") <=> u \in Counted(j)
  BY <1>1, <1>2, <1>3, UserFacts, IdleFields
<1>9. \A j \in Keys : <<u, j>> \in held' => <<u, j>> \in held /\ got'[<<u, j>>] = got[<<u, j>>]
  BY <1>1, <1>2, <1>4
<1>10. \A x \in Users \ {u}, j \in Keys :
         (<<x, j>> \in held' <=> <<x, j>> \in held) /\ got'[<<x, j>>] = got[<<x, j>>]
  BY <1>2, <1>4
<1>11. \A x \in Users \ {u} : go[x].op = "ref" /\ go[x].lender = u =>
         <<u, Key(x)>> \in held' /\ got'[<<u, Key(x)>>] = got[<<u, Key(x)>>]
  BY <1>1, <1>2, <1>4, <1>6
<1>12. go[u].pc # "produce" /\ o.pc # "produce" /\ held' \subseteq Users \X Keys
  BY <1>2, <1>3, <1>4, UserFacts, IdleFields
<1> QED BY <1>2, <1>3, <1>4, <1>5, <1>7, <1>8, <1>9, <1>10, <1>11, <1>12, QuietStep

\* The lookups and retries change nothing but how far user u has got.
LEMMA OnlyGo ==
  ASSUME IInv, NEW u \in Users, NEW o \in Operations,
         UNCHANGED <<entryVars, held, got>>, missed' = FALSE, go' = [go EXCEPT ![u] = o],
         go[u].pc # "produce", o.pc # "produce",
         \A k \in Keys : (o.key = k /\ o.op = "deref") <=> (go[u].key = k /\ go[u].op = "deref"),
         UserOK(u)'
  PROVE  IInv'
<1>1. \A w \in Users \ {u} : go[w].op = "ref" => <<go[w].lender, Key(w)>> \in held
  BY DEF IInv, UserOK, LenderOK
<1>2. \A k \in Keys : <<u, k>> \in held \/ (o.key = k /\ o.op = "deref") <=> u \in Counted(k)
  BY UserFacts
<1> QED BY <1>1, <1>2, UserFacts, QuietStep

\* A lookup finds the entry in the map.
LEMMA FindEntryInv ==
  ASSUME IInv, NEW u \in Users, FindEntry(u)
  PROVE  IInv'
<1> DEFINE o == [go[u] EXCEPT !.pc = "lock", !.entry = entries[Key(u)]]
<1>1. /\ go[u].pc \in {"store", "load"} /\ entries[Key(u)] # None
      /\ UNCHANGED <<entryVars, held, got, missed>>
  BY DEF FindEntry
<1>2. go' = [go EXCEPT ![u] = o]
  BY UserFacts DEF FindEntry
<1>3. UserOK(u) /\ Key(u) \in Keys /\ entries[Key(u)] \in Entries
  <2>1. UserOK(u) /\ TypeOK
    BY UserFacts
  <2> QED BY <1>1, <2>1 DEF UserOK, TypeOK
<1>4. /\ o \in Operations /\ o.op = go[u].op /\ o.pc = "lock" /\ o.key = go[u].key
      /\ o.entry = entries[Key(u)] /\ o.lender = go[u].lender /\ go'[u] = o
  BY <1>2, <1>3, UserFacts DEF Operations
<1>5. UserOK(u)'
  BY <1>1, <1>3, <1>4 DEF UserOK, Key, Entry, LenderOK, entryVars
<1> HIDE DEF o
<1> QED BY <1>1, <1>2, <1>4, <1>5, UserFacts, OnlyGo

\* Neither Ref nor Deref misses: a reference keeps the entry in the map.
LEMMA MissEntryInv ==
  ASSUME IInv, NEW u \in Users, MissEntry(u)
  PROVE  IInv'
<1>1. /\ go[u].pc = "load" /\ entries[Key(u)] = None
      /\ UNCHANGED <<entryVars, held, got>>
      /\ missed' = (missed \/ go[u].op = "ref") /\ go' = [go EXCEPT ![u] = Idle]
  BY DEF MissEntry
<1>2. TypeOK /\ CountExact /\ UserOK(u) /\ missed = FALSE
  BY UserFacts
<1>3. Key(u) \in Keys /\ Counted(Key(u)) = {}
  BY <1>1, <1>2 DEF UserOK, CountExact
<1>4. go[u].op # "ref" /\ go[u].op # "deref"
  BY <1>3, LenderCounts DEF Counted
<1>5. go'[u] = Idle /\ missed' = FALSE
  BY <1>1, <1>2, <1>4 DEF TypeOK
<1>6. UserOK(u)'
  BY <1>5, IdleFields DEF UserOK
<1> QED BY <1>1, <1>4, <1>5, <1>6, IdleFields, OnlyGo

\* A dead entry is forgotten.
LEMMA RetryInv ==
  ASSUME IInv, NEW u \in Users, Retry(u)
  PROVE  IInv'
<1> DEFINE o == [go[u] EXCEPT !.pc = "store", !.entry = None]
<1>1. /\ go[u].pc = "lock" /\ go[u].op \in Makers
      /\ UNCHANGED <<entryVars, held, got, missed>>
  BY DEF Retry, Locks, Makers
<1>a. go' = [go EXCEPT ![u] = o]
  BY UserFacts DEF Retry
<1>2. UserOK(u) /\ TypeOK /\ missed = FALSE
  BY UserFacts
<1>3. /\ o \in Operations /\ o.op = go[u].op /\ o.pc = "store" /\ o.key = go[u].key
      /\ go'[u] = o
  BY <1>a, UserFacts DEF Operations
<1>4. UserOK(u)'
  BY <1>1, <1>2, <1>3 DEF UserOK, Key, Makers
<1> HIDE DEF o
<1> QED BY <1>1, <1>a, <1>2, <1>3, <1>4, OnlyGo

\* An entry without references is not in the map.
LEMMA DeadIsGone ==
  ASSUME IInv, NEW k \in Keys, entries[k] # None
  PROVE  entries[k] \in Entries /\ refCount[entries[k]] > 0 /\ ~Dead(entries[k])
<1>1. TypeOK /\ CountExact
  BY DEF IInv
<1>2. PICK u \in Users : u \in Counted(k)
  BY <1>1, CountedFinite DEF CountExact
<1>3. entries[k] \in Entries /\ refCount[entries[k]] > 0
  BY <1>1, <1>2, CountedEntry
<1>4. refCount[entries[k]] \in Nat
  BY <1>1, <1>3 DEF TypeOK
<1> QED BY <1>3, <1>4 DEF Dead

\* AcquireExisting gives up on a dead entry, and Ref never has to.
LEMMA GiveUpInv ==
  ASSUME IInv, NEW u \in Users, GiveUp(u)
  PROVE  IInv'
<1>1. /\ go[u].pc = "lock" /\ go[u].op \in {"existing", "ref"} /\ Dead(Entry(u))
      /\ UNCHANGED <<entryVars, held, got>>
      /\ missed' = (missed \/ go[u].op = "ref") /\ go' = [go EXCEPT ![u] = Idle]
  BY DEF GiveUp, Locks
<1>2. UserOK(u) /\ TypeOK /\ missed = FALSE
  BY UserFacts
<1>3. go[u].op # "ref"
  <2> SUFFICES ASSUME go[u].op = "ref" PROVE FALSE
    OBVIOUS
  <2>1. Key(u) \in Keys /\ entries[Key(u)] = Entry(u) /\ Entry(u) \in Entries
    BY <1>1, <1>2 DEF UserOK
  <2> QED BY <1>1, <2>1, DeadIsGone, SetsAssumption
<1>4. go'[u] = Idle /\ missed' = FALSE
  BY <1>1, <1>2, <1>3 DEF TypeOK
<1>5. UserOK(u)'
  BY <1>4, IdleFields DEF UserOK
<1> QED BY <1>1, <1>3, <1>4, <1>5, IdleFields, OnlyGo

-----------------------------------------------------------------------------
(* Steps on an entry.                                                           *)

\* Whoever joins an entry counts for it and gets its value.
LEMMA JoinInv ==
  ASSUME IInv, ~DisableDeletion, NEW u \in Users, Join(u)
  PROVE  IInv'
<1>a. /\ TypeOK /\ CountExact /\ Distinct /\ HeldOK /\ missed = FALSE
      /\ \A w \in Users : UserOK(w)
      /\ \A x \in Entries : LockOK(x)
      /\ \A j \in Keys : KeyOK(j)
  BY DEF IInv, RefFindsEntry, TypeOK
<1>b. /\ go[u].pc = "lock" /\ go[u].op # "deref" /\ UserOK(u)
  BY <1>a DEF Join, Locks
<1>c. PICK k \in Keys, e \in Entries : k = Key(u) /\ e = Entry(u)
  BY <1>b DEF UserOK
<1>d. /\ lockedBy[e] = None /\ ~Dead(e)
      /\ UNCHANGED <<entries, lockedBy, value, missed>>
      /\ go' = [go EXCEPT ![u] = Idle] /\ held' = held \cup {<<u, k>>}
      /\ refCount' = [refCount EXCEPT ![e] = @ + 1]
  BY <1>c DEF Join, Locks
<1>e. PICK v \in Yields(u) : got' = [got EXCEPT ![<<u, k>>] = v]
  BY <1>c DEF Join
<1>f. refCount[e] \in Nat /\ refCount[e] > 0
  BY <1>a, <1>d DEF TypeOK, Dead
<1>g. entries[k] = e /\ <<u, k>> \notin held /\ e # None
  BY <1>b, <1>c, <1>f, SetsAssumption DEF UserOK, Vanished
<1>h. v = value[e] /\ v \in Values
  <2>1. value[e] \in Values
    BY <1>a, <1>d, <1>g DEF KeyOK
  <2>2. CASE go[u].op # "ref"
    BY <1>c, <1>e, <2>1, <2>2 DEF Yields
  <2>3. CASE go[u].op = "ref"
    <3>1. LenderOK(u) /\ v = got[<<u, k>>]
      BY <1>b, <1>c, <1>e, <2>3 DEF UserOK, Yields
    <3> QED BY <1>a, <1>c, <1>g, <2>1, <3>1 DEF LenderOK, HeldOK
  <2> QED BY <2>2, <2>3
<1>i. go'[u] = Idle /\ \A w \in Users \ {u} : go'[w] = go[w]
  BY <1>a, <1>d DEF TypeOK
<1>j. /\ got' \in [Users \X Keys -> Values \cup {None}] /\ got'[<<u, k>>] = v
      /\ \A w \in Users, j \in Keys : <<w, j>> # <<u, k>> => got'[<<w, j>>] = got[<<w, j>>]
  BY <1>a, <1>e, <1>h DEF TypeOK
<1>k. /\ refCount' \in [Entries -> Nat] /\ refCount'[e] = refCount[e] + 1
      /\ \A x \in Entries \ {e} : refCount'[x] = refCount[x]
  BY <1>a, <1>d, <1>f DEF TypeOK
<1>1. TypeOK'
  <2>1. go' \in [Users -> Operations]
    BY <1>a, <1>d, IdleFields DEF TypeOK
  <2>2. held' \subseteq Users \X Keys
    BY <1>a, <1>d DEF TypeOK
  <2> QED BY <1>a, <1>d, <1>j, <1>k, <2>1, <2>2 DEF TypeOK
<1>2. Counted(k)' = Counted(k) \cup {u} /\ u \notin Counted(k)
  <2>1. u \notin Counted(k)
    BY <1>b, <1>g DEF Counted
  <2>2. u \in Counted(k)'
    BY <1>d DEF Counted
  <2>3. ASSUME NEW w \in Users \ {u} PROVE w \in Counted(k)' <=> w \in Counted(k)
    BY <1>d, <1>i DEF Counted, Key
  <2> QED BY <2>1, <2>2, <2>3 DEF Counted
<1>3. ASSUME NEW j \in Keys \ {k} PROVE Counted(j)' = Counted(j)
  <2>1. ASSUME NEW w \in Users \ {u} PROVE w \in Counted(j)' <=> w \in Counted(j)
    BY <1>d, <1>i DEF Counted, Key
  <2>2. u \in Counted(j)' <=> u \in Counted(j)
    BY <1>b, <1>c, <1>d, <1>i, IdleFields DEF Counted, Key
  <2> QED BY <2>1, <2>2 DEF Counted
<1>4. CountExact'
  <2> SUFFICES ASSUME NEW j \in Keys
               PROVE  IF entries[j] = None THEN Counted(j)' = {}
                      ELSE Counted(j)' # {} /\ refCount'[entries[j]] = Cardinality(Counted(j)')
    BY <1>d DEF CountExact
  <2>1. CASE j = k
    <3>1. Cardinality(Counted(k) \cup {u}) = Cardinality(Counted(k)) + 1
      BY <1>2, CountedFinite, FS_AddElement
    <3>2. refCount[e] = Cardinality(Counted(k))
      BY <1>a, <1>g DEF CountExact
    <3> QED BY <1>2, <1>g, <1>k, <2>1, <3>1, <3>2
  <2>2. CASE j # k
    <3>1. entries[j] # None => entries[j] \in Entries \ {e}
      BY <1>a, <1>g, <2>2 DEF Distinct, TypeOK
    <3> QED BY <1>3, <1>a, <1>k, <2>2, <3>1 DEF CountExact
  <2> QED BY <2>1, <2>2
<1>5. ASSUME NEW w \in Users PROVE UserOK(w)'
  <2>1. CASE w = u
    BY <1>i, <2>1, IdleFields DEF UserOK
  <2>2. CASE w # u
    <3>1. UserOK(w) /\ go'[w] = go[w] /\ <<w, Key(w)>> # <<u, k>>
      BY <1>a, <1>i, <2>2
    <3>2. go[w].pc = "produce" => Entry(w) \in Entries \ {e}
      BY <1>d, <2>2, <3>1, SetsAssumption DEF UserOK
    <3>3. go[w].pc = "lock" /\ Vanished(Entry(w)) => Vanished(Entry(w))'
      BY <1>d, <1>f, <1>k, <3>1 DEF UserOK, Vanished, Entry
    <3>4. go[w].op = "ref" => LenderOK(w)'
      BY <1>d, <1>g, <1>j, <3>1, IdleFields DEF UserOK, LenderOK, Key
    <3>5. <<w, Key(w)>> \in held' <=> <<w, Key(w)>> \in held
      BY <1>d, <3>1
    <3> QED BY <1>d, <1>k, <3>1, <3>2, <3>3, <3>4, <3>5 DEF UserOK, Key, Entry
  <2> QED BY <2>1, <2>2
<1>6. ASSUME NEW x \in Entries PROVE LockOK(x)'
  <2>1. LockOK(x) /\ lockedBy[x] \in Users \cup {None}
    BY <1>a DEF TypeOK
  <2> QED BY <1>b, <1>d, <1>i, <2>1 DEF LockOK, Entry
<1>7. Distinct' /\ \A j \in Keys : KeyOK(j)'
  BY <1>a, <1>d DEF Distinct, KeyOK
<1>8. HeldOK'
  <2> SUFFICES ASSUME NEW w \in Users, NEW j \in Keys, <<w, j>> \in held'
               PROVE  lockedBy[entries[j]] = None /\ got'[<<w, j>>] = value[entries[j]]
    BY <1>d DEF HeldOK
  <2>1. CASE <<w, j>> = <<u, k>>
    BY <1>d, <1>g, <1>h, <1>j, <2>1
  <2>2. CASE <<w, j>> # <<u, k>>
    BY <1>a, <1>d, <1>j, <2>2 DEF HeldOK
  <2> QED BY <2>1, <2>2
<1> QED BY <1>1, <1>4, <1>5, <1>6, <1>7, <1>8, <1>a, <1>d DEF IInv, RefFindsEntry

\* The last to leave takes the entry out of the map.
LEMMA DerefInv ==
  ASSUME IInv, ~DisableDeletion, NEW u \in Users, Deref(u)
  PROVE  IInv'
<1>a. /\ TypeOK /\ CountExact /\ Distinct /\ HeldOK /\ missed = FALSE
      /\ \A w \in Users : UserOK(w)
      /\ \A x \in Entries : LockOK(x)
      /\ \A j \in Keys : KeyOK(j)
  BY DEF IInv, RefFindsEntry, TypeOK
<1>b. /\ go[u].pc = "lock" /\ go[u].op = "deref" /\ UserOK(u)
  BY <1>a DEF Deref, Locks
<1>c. PICK k \in Keys, e \in Entries : k = Key(u) /\ e = Entry(u)
  BY <1>b DEF UserOK
<1>d. /\ lockedBy[e] = None
      /\ UNCHANGED <<lockedBy, value, held, got, missed>>
      /\ go' = [go EXCEPT ![u] = Idle]
      /\ refCount' = [refCount EXCEPT ![e] = refCount[e] - 1]
      /\ entries' = IF refCount[e] - 1 <= 0 THEN [entries EXCEPT ![k] = None] ELSE entries
  BY <1>c DEF Deref, Locks, Decremented
<1>e. entries[k] = e /\ <<u, k>> \notin held /\ e # None /\ u \in Counted(k)
  BY <1>b, <1>c, SetsAssumption DEF UserOK, Counted
<1>f. refCount[e] = Cardinality(Counted(k)) /\ refCount[e] > 0 /\ refCount[e] \in Nat
  BY <1>a, <1>e, CountedEntry, CountedFinite
<1>g. go'[u] = Idle /\ \A w \in Users \ {u} : go'[w] = go[w]
  BY <1>a, <1>d DEF TypeOK
<1>h. /\ refCount' \in [Entries -> Nat] /\ refCount'[e] = refCount[e] - 1
      /\ \A x \in Entries \ {e} : refCount'[x] = refCount[x]
  BY <1>a, <1>d, <1>f DEF TypeOK
<1>i. /\ entries' \in [Keys -> Entries \cup {None}]
      /\ \A j \in Keys \ {k} : entries'[j] = entries[j]
      /\ entries'[k] = IF refCount[e] = 1 THEN None ELSE e
  <2>1. CASE refCount[e] = 1
    BY <1>a, <1>d, <2>1 DEF TypeOK
  <2>2. CASE refCount[e] # 1
    BY <1>a, <1>d, <1>e, <1>f, <2>2 DEF TypeOK
  <2> QED BY <2>1, <2>2
<1>j. refCount[e] = 1 => Counted(k) = {u}
  <2>1. ASSUME refCount[e] = 1, NEW w \in Counted(k) PROVE w = u
    BY <1>e, <1>f, <2>1, CountedFinite, OnlyOne
  <2> QED BY <1>e, <2>1
<1>k. \A j \in Keys \ {k} : entries[j] # e
  BY <1>a, <1>e DEF Distinct
<1>1. TypeOK'
  <2>1. go' \in [Users -> Operations]
    BY <1>a, <1>d, IdleFields DEF TypeOK
  <2> QED BY <1>a, <1>d, <1>h, <1>i, <2>1 DEF TypeOK
<1>2. Counted(k)' = Counted(k) \ {u}
  <2>1. u \notin Counted(k)'
    BY <1>d, <1>e, <1>g, IdleFields DEF Counted
  <2>2. ASSUME NEW w \in Users \ {u} PROVE w \in Counted(k)' <=> w \in Counted(k)
    BY <1>d, <1>g DEF Counted, Key
  <2> QED BY <2>1, <2>2 DEF Counted
<1>3. ASSUME NEW j \in Keys \ {k} PROVE Counted(j)' = Counted(j)
  <2>1. ASSUME NEW w \in Users \ {u} PROVE w \in Counted(j)' <=> w \in Counted(j)
    BY <1>d, <1>g DEF Counted, Key
  <2>2. u \in Counted(j)' <=> u \in Counted(j)
    BY <1>b, <1>c, <1>d, <1>g, IdleFields DEF Counted, Key
  <2> QED BY <2>1, <2>2 DEF Counted
<1>4. CountExact'
  <2> SUFFICES ASSUME NEW j \in Keys
               PROVE  IF entries'[j] = None THEN Counted(j)' = {}
                      ELSE Counted(j)' # {} /\ refCount'[entries'[j]] = Cardinality(Counted(j)')
    BY DEF CountExact
  <2>1. CASE j = k /\ refCount[e] = 1
    BY <1>2, <1>i, <1>j, <2>1
  <2>2. CASE j = k /\ refCount[e] # 1
    <3>1. /\ Cardinality(Counted(k) \ {u}) = Cardinality(Counted(k)) - 1
          /\ IsFiniteSet(Counted(k) \ {u})
      BY <1>e, CountedFinite, FS_RemoveElement
    <3>2. Cardinality(Counted(k) \ {u}) # 0
      BY <1>f, <2>2, <3>1
    <3>3. Counted(k) \ {u} # {}
      BY <3>2, FS_EmptySet
    <3> QED BY <1>2, <1>e, <1>f, <1>h, <1>i, <2>2, <3>1, <3>3
  <2>3. CASE j # k
    <3>1. entries[j] # None => entries[j] \in Entries \ {e}
      BY <1>a, <1>k, <2>3 DEF TypeOK
    <3> QED BY <1>3, <1>a, <1>h, <1>i, <2>3, <3>1 DEF CountExact
  <2> QED BY <2>1, <2>2, <2>3
<1>5. ASSUME NEW w \in Users PROVE UserOK(w)'
  <2>1. CASE w = u
    BY <1>g, <2>1, IdleFields DEF UserOK
  <2>2. CASE w # u
    <3>1. UserOK(w) /\ go'[w] = go[w]
      BY <1>a, <1>g, <2>2
    <3>2. go[w].pc = "produce" => /\ Entry(w) \in Entries \ {e} /\ Key(w) \in Keys \ {k}
                                  /\ entries'[Key(w)] = entries[Key(w)]
      BY <1>d, <1>e, <1>i, <3>1, SetsAssumption DEF UserOK
    <3>3. go[w].pc = "lock" =>
            /\ entries'[Key(w)] = Entry(w) \/ Vanished(Entry(w))'
            /\ go[w].op \in {"ref", "deref"} => entries'[Key(w)] = Entry(w)
      <4> SUFFICES ASSUME go[w].pc = "lock"
                   PROVE  /\ entries'[Key(w)] = Entry(w) \/ Vanished(Entry(w))'
                          /\ go[w].op \in {"ref", "deref"} => entries'[Key(w)] = Entry(w)
        OBVIOUS
      <4>1. Key(w) \in Keys /\ Entry(w) \in Entries /\ Entry(w) # None
        BY <3>1, SetsAssumption DEF UserOK
      <4>2. CASE Entry(w) = e /\ refCount[e] = 1
        <5>1. Vanished(Entry(w))'
          BY <1>e, <1>g, <1>h, <1>i, <1>k, <2>2, <4>1, <4>2 DEF Vanished, Entry
        <5>2. ASSUME go[w].op \in {"ref", "deref"} PROVE FALSE
          <6>1. entries[Key(w)] = e
            BY <3>1, <4>2, <5>2 DEF UserOK
          <6>2. Key(w) = k
            BY <1>k, <4>1, <6>1
          <6>3. CASE go[w].op = "deref"
            <7>1. w \in Counted(k)
              BY <6>2, <6>3 DEF Counted
            <7> QED BY <7>1, <1>j, <2>2, <4>2
          <6>4. CASE go[w].op = "ref"
            <7>1. LenderOK(w)
              BY <3>1, <6>4 DEF UserOK
            <7>2. go[w].lender \in Counted(k) /\ go[w].lender # u
              BY <1>e, <6>2, <7>1 DEF LenderOK, Counted
            <7> QED BY <7>2, <1>j, <4>2
          <6> QED BY <5>2, <6>3, <6>4
        <5> QED BY <5>1, <5>2
      <4>3. CASE Entry(w) = e /\ refCount[e] # 1
        <5>1. entries' = entries
          BY <1>d, <1>f, <4>3
        <5>2. ~Vanished(Entry(w))
          BY <1>f, <4>3 DEF Vanished
        <5> QED BY <3>1, <5>1, <5>2 DEF UserOK
      <4>4. CASE Entry(w) # e
        <5>1. entries[Key(w)] = Entry(w) => entries'[Key(w)] = Entry(w)
          BY <1>e, <1>i, <4>1, <4>4
        <5>2. Vanished(Entry(w)) => Vanished(Entry(w))'
          BY <1>h, <1>i, <3>1, <4>1, <4>4, <1>e DEF Vanished, Entry
        <5> QED BY <3>1, <5>1, <5>2 DEF UserOK
      <4> QED BY <4>2, <4>3, <4>4
    <3>4. go[w].op = "ref" => LenderOK(w)'
      BY <1>d, <3>1, IdleFields DEF UserOK, LenderOK, Key
    <3> QED BY <1>d, <1>h, <3>1, <3>2, <3>3, <3>4 DEF UserOK, Key, Entry
  <2> QED BY <2>1, <2>2
<1>6. ASSUME NEW x \in Entries PROVE LockOK(x)'
  <2>1. LockOK(x) /\ lockedBy[x] \in Users \cup {None}
    BY <1>a DEF TypeOK
  <2> QED BY <1>b, <1>d, <1>g, <2>1 DEF LockOK, Entry
<1>7. Distinct'
  BY <1>a, <1>e, <1>i, <1>k DEF Distinct
<1>8. ASSUME NEW j \in Keys PROVE KeyOK(j)'
  BY <1>a, <1>d, <1>e, <1>i DEF KeyOK
<1>9. HeldOK'
  <2> SUFFICES ASSUME NEW w \in Users, NEW j \in Keys, <<w, j>> \in held
               PROVE  lockedBy[entries'[j]] = None /\ got[<<w, j>>] = value[entries'[j]]
    BY <1>d DEF HeldOK
  <2>1. entries'[j] = entries[j]
    <3>1. CASE j # k
      BY <1>i, <3>1
    <3>2. CASE j = k
      <4>1. w \in Counted(k) /\ w # u
        BY <1>e, <3>2 DEF Counted
      <4> QED BY <1>e, <1>i, <1>j, <3>2, <4>1
    <3> QED BY <3>1, <3>2
  <2> QED BY <1>a, <2>1 DEF HeldOK
<1> QED BY <1>1, <1>4, <1>5, <1>6, <1>7, <1>8, <1>9, <1>a, <1>d DEF IInv, RefFindsEntry

\* While a value is produced nobody but the producer uses the entry.
LEMMA Producer ==
  ASSUME IInv, NEW u \in Users, go[u].pc = "produce"
  PROVE  \E k \in Keys, e \in Entries :
           /\ k = Key(u) /\ e = Entry(u) /\ e # None
           /\ go[u].op \in Makers /\ <<u, k>> \notin held
           /\ entries[k] = e /\ lockedBy[e] = u /\ refCount[e] = 1 /\ Counted(k) = {u}
           /\ \A j \in Keys \ {k} : entries[j] # e
<1>a. TypeOK /\ CountExact /\ Distinct /\ UserOK(u)
  BY DEF IInv
<1>b. PICK k \in Keys, e \in Entries : k = Key(u) /\ e = Entry(u)
  BY <1>a DEF UserOK
<1>c. /\ go[u].op \in Makers /\ <<u, k>> \notin held
      /\ entries[k] = e /\ lockedBy[e] = u /\ refCount[e] = 1 /\ e # None
  BY <1>a, <1>b, SetsAssumption DEF UserOK
<1>d. u \in Counted(k) /\ Cardinality(Counted(k)) = 1
  BY <1>a, <1>b, <1>c DEF Counted, CountExact
<1>e. ASSUME NEW w \in Counted(k) PROVE w = u
  BY <1>d, CountedFinite, OnlyOne
<1>f. \A j \in Keys \ {k} : entries[j] # e
  BY <1>a, <1>c DEF Distinct
<1> QED BY <1>b, <1>c, <1>d, <1>e, <1>f

\* The producer's value is the value of the entry.
LEMMA ProduceInv ==
  ASSUME IInv, NEW u \in Users, Produce(u)
  PROVE  IInv'
<1>a. /\ TypeOK /\ CountExact /\ Distinct /\ HeldOK /\ missed = FALSE
      /\ \A w \in Users : UserOK(w)
      /\ \A x \in Entries : LockOK(x)
      /\ \A j \in Keys : KeyOK(j)
  BY DEF IInv, RefFindsEntry, TypeOK
<1>b. go[u].pc = "produce"
  BY DEF Produce
<1>c. PICK k \in Keys, e \in Entries :
           /\ k = Key(u) /\ e = Entry(u) /\ e # None
           /\ go[u].op \in Makers /\ <<u, k>> \notin held
           /\ entries[k] = e /\ lockedBy[e] = u /\ refCount[e] = 1 /\ Counted(k) = {u}
           /\ \A j \in Keys \ {k} : entries[j] # e
  BY <1>b, Producer
<1>d. PICK v \in Values : /\ value' = [value EXCEPT ![e] = v]
                          /\ got' = [got EXCEPT ![<<u, k>>] = v]
  BY <1>c DEF Produce
<1>e. /\ held' = held \cup {<<u, k>>} /\ lockedBy' = [lockedBy EXCEPT ![e] = None]
      /\ go' = [go EXCEPT ![u] = Idle] /\ UNCHANGED <<entries, refCount, missed>>
  BY <1>c DEF Produce, Unlocked
<1>f. go'[u] = Idle /\ \A w \in Users \ {u} : go'[w] = go[w]
  BY <1>a, <1>e DEF TypeOK
<1>g. /\ got' \in [Users \X Keys -> Values \cup {None}] /\ got'[<<u, k>>] = v
      /\ \A w \in Users, j \in Keys : <<w, j>> # <<u, k>> => got'[<<w, j>>] = got[<<w, j>>]
  BY <1>a, <1>d DEF TypeOK
<1>h. /\ value' \in [Entries -> Values \cup {None}] /\ value'[e] = v
      /\ lockedBy' \in [Entries -> Users \cup {None}] /\ lockedBy'[e] = None
      /\ \A x \in Entries \ {e} : value'[x] = value[x] /\ lockedBy'[x] = lockedBy[x]
  BY <1>a, <1>d, <1>e DEF TypeOK
<1>1. TypeOK'
  <2>1. go' \in [Users -> Operations]
    BY <1>a, <1>e, IdleFields DEF TypeOK
  <2>2. held' \subseteq Users \X Keys
    BY <1>a, <1>e DEF TypeOK
  <2> QED BY <1>a, <1>e, <1>g, <1>h, <2>1, <2>2 DEF TypeOK
<1>2. ASSUME NEW j \in Keys PROVE Counted(j)' = Counted(j)
  <2>1. ASSUME NEW w \in Users \ {u} PROVE w \in Counted(j)' <=> w \in Counted(j)
    BY <1>e, <1>f DEF Counted, Key
  <2>2. u \in Counted(j)' <=> u \in Counted(j)
    <3>1. CASE j = k
      BY <1>c, <1>e, <3>1 DEF Counted
    <3>2. CASE j # k
      BY <1>c, <1>e, <1>f, <3>2, IdleFields DEF Counted, Key
    <3> QED BY <3>1, <3>2
  <2> QED BY <2>1, <2>2 DEF Counted
<1>3. CountExact'
  BY <1>a, <1>e, <1>2 DEF CountExact
<1>4. ASSUME NEW w \in Users PROVE UserOK(w)'
  <2>1. CASE w = u
    BY <1>f, <2>1, IdleFields DEF UserOK
  <2>2. CASE w # u
    <3>1. UserOK(w) /\ go'[w] = go[w]
      BY <1>a, <1>f, <2>2
    <3>2. go[w].pc = "produce" => Entry(w) \in Entries \ {e}
      BY <1>c, <2>2, <3>1 DEF UserOK
    <3>3. go[w].op = "ref" => LenderOK(w)'
      <4> SUFFICES ASSUME go[w].op = "ref" PROVE LenderOK(w)'
        OBVIOUS
      <4>1. LenderOK(w) /\ Key(w) \in Keys
        BY <3>1, IdleFields DEF UserOK
      <4>2. <<go[w].lender, Key(w)>> # <<u, k>> /\ <<w, Key(w)>> # <<u, k>>
        BY <1>c, <2>2, <4>1 DEF LenderOK
      <4> QED BY <1>e, <1>g, <3>1, <4>1, <4>2 DEF LenderOK, Key
    <3>4. <<w, Key(w)>> \in held' <=> <<w, Key(w)>> \in held
      BY <1>e, <2>2
    <3> QED BY <1>e, <1>h, <3>1, <3>2, <3>3, <3>4 DEF UserOK, Key, Entry, Vanished
  <2> QED BY <2>1, <2>2
<1>5. ASSUME NEW x \in Entries PROVE LockOK(x)'
  <2>1. CASE x = e
    BY <1>h, <2>1 DEF LockOK
  <2>2. CASE x # e
    <3>1. LockOK(x) /\ lockedBy[x] \in Users \cup {None} /\ lockedBy'[x] = lockedBy[x]
      BY <1>a, <1>h, <2>2 DEF TypeOK
    <3>2. lockedBy[x] # u
      BY <1>c, <2>2, <3>1, SetsAssumption DEF LockOK
    <3> QED BY <1>f, <3>1, <3>2 DEF LockOK, Entry
  <2> QED BY <2>1, <2>2
<1>6. Distinct'
  BY <1>a, <1>e DEF Distinct
<1>7. ASSUME NEW j \in Keys PROVE KeyOK(j)'
  <2>1. entries'[j] = entries[j] /\ entries[j] \in Entries \cup {None}
    BY <1>a, <1>e DEF TypeOK
  <2>2. CASE j = k
    BY <1>c, <1>h, <2>1, <2>2 DEF KeyOK
  <2>3. CASE j # k
    BY <1>a, <1>c, <1>h, <2>1, <2>3 DEF KeyOK
  <2> QED BY <2>2, <2>3
<1>8. HeldOK'
  <2> SUFFICES ASSUME NEW w \in Users, NEW j \in Keys, <<w, j>> \in held'
               PROVE  lockedBy'[entries[j]] = None /\ got'[<<w, j>>] = value'[entries[j]]
    BY <1>e DEF HeldOK
  <2>1. CASE <<w, j>> = <<u, k>>
    BY <1>c, <1>g, <1>h, <2>1
  <2>2. CASE <<w, j>> # <<u, k>>
    <3>1. <<w, j>> \in held
      BY <1>e, <2>2
    <3>2. w \in Counted(j)
      BY <3>1 DEF Counted
    <3>3. j # k
      BY <1>c, <2>2, <3>2
    <3>4. entries[j] \in Entries \ {e}
      BY <1>a, <1>c, <3>2, <3>3, CountedEntry
    <3> QED BY <1>a, <1>g, <1>h, <2>2, <3>1, <3>4 DEF HeldOK
  <2> QED BY <2>1, <2>2
<1> QED BY <1>1, <1>3, <1>4, <1>5, <1>6, <1>7, <1>8, <1>a, <1>e DEF IInv, RefFindsEntry

\* A producer that fails leaves no reference behind.
LEMMA ProduceFailsInv ==
  ASSUME IInv, NEW u \in Users, ProduceFails(u)
  PROVE  IInv'
<1>a. /\ TypeOK /\ CountExact /\ Distinct /\ HeldOK /\ missed = FALSE
      /\ \A w \in Users : UserOK(w)
      /\ \A x \in Entries : LockOK(x)
      /\ \A j \in Keys : KeyOK(j)
  BY DEF IInv, RefFindsEntry, TypeOK
<1>b. go[u].pc = "produce"
  BY DEF ProduceFails
<1>c. PICK k \in Keys, e \in Entries :
           /\ k = Key(u) /\ e = Entry(u) /\ e # None
           /\ go[u].op \in Makers /\ <<u, k>> \notin held
           /\ entries[k] = e /\ lockedBy[e] = u /\ refCount[e] = 1 /\ Counted(k) = {u}
           /\ \A j \in Keys \ {k} : entries[j] # e
  BY <1>b, Producer
<1>d. /\ refCount' = [refCount EXCEPT ![e] = 0] /\ lockedBy' = [lockedBy EXCEPT ![e] = None]
      /\ entries' = [entries EXCEPT ![k] = None]
      /\ go' = [go EXCEPT ![u] = Idle] /\ UNCHANGED <<value, held, got, missed>>
  BY <1>c DEF ProduceFails, Unlocked
<1>f. go'[u] = Idle /\ \A w \in Users \ {u} : go'[w] = go[w]
  BY <1>a, <1>d DEF TypeOK
<1>g. /\ entries' \in [Keys -> Entries \cup {None}] /\ entries'[k] = None
      /\ \A j \in Keys \ {k} : entries'[j] = entries[j]
  BY <1>a, <1>d DEF TypeOK
<1>h. /\ refCount' \in [Entries -> Nat] /\ refCount'[e] = 0
      /\ lockedBy' \in [Entries -> Users \cup {None}] /\ lockedBy'[e] = None
      /\ \A x \in Entries \ {e} : refCount'[x] = refCount[x] /\ lockedBy'[x] = lockedBy[x]
  BY <1>a, <1>d DEF TypeOK
<1>1. TypeOK'
  <2>1. go' \in [Users -> Operations]
    BY <1>a, <1>d, IdleFields DEF TypeOK
  <2> QED BY <1>a, <1>d, <1>g, <1>h, <2>1 DEF TypeOK
<1>2. Counted(k)' = {}
  <2>1. ASSUME NEW w \in Users \ {u} PROVE w \in Counted(k)' <=> w \in Counted(k)
    BY <1>d, <1>f DEF Counted, Key
  <2>2. u \notin Counted(k)'
    BY <1>c, <1>d, <1>f, IdleFields DEF Counted
  <2> QED BY <1>c, <2>1, <2>2 DEF Counted
<1>3. ASSUME NEW j \in Keys \ {k} PROVE Counted(j)' = Counted(j)
  <2>1. ASSUME NEW w \in Users \ {u} PROVE w \in Counted(j)' <=> w \in Counted(j)
    BY <1>d, <1>f DEF Counted, Key
  <2>2. u \in Counted(j)' <=> u \in Counted(j)
    BY <1>c, <1>d, <1>f, IdleFields DEF Counted, Key
  <2> QED BY <2>1, <2>2 DEF Counted
<1>4. CountExact'
  <2> SUFFICES ASSUME NEW j \in Keys
               PROVE  IF entries'[j] = None THEN Counted(j)' = {}
                      ELSE Counted(j)' # {} /\ refCount'[entries'[j]] = Cardinality(Counted(j)')
    BY DEF CountExact
  <2>1. CASE j = k
    BY <1>2, <1>g, <2>1
  <2>2. CASE j # k
    <3>1. entries[j] # None => entries[j] \in Entries \ {e}
      BY <1>a, <1>c, <2>2 DEF TypeOK
    <3> QED BY <1>3, <1>a, <1>g, <1>h, <2>2, <3>1 DEF CountExact
  <2> QED BY <2>1, <2>2
<1>5. ASSUME NEW w \in Users PROVE UserOK(w)'
  <2>1. CASE w = u
    BY <1>f, <2>1, IdleFields DEF UserOK
  <2>2. CASE w # u
    <3>1. UserOK(w) /\ go'[w] = go[w]
      BY <1>a, <1>f, <2>2
    <3>2. go[w].pc = "produce" => /\ Entry(w) \in Entries \ {e} /\ Key(w) \in Keys \ {k}
                                  /\ entries'[Key(w)] = entries[Key(w)]
      BY <1>c, <1>g, <2>2, <3>1 DEF UserOK
    <3>3. go[w].op = "ref" => LenderOK(w)'
      BY <1>d, <3>1, IdleFields DEF UserOK, LenderOK, Key
    <3>4. go[w].pc = "lock" =>
            /\ entries'[Key(w)] = Entry(w) \/ Vanished(Entry(w))'
            /\ go[w].op \in {"ref", "deref"} => entries'[Key(w)] = Entry(w)
      <4> SUFFICES ASSUME go[w].pc = "lock"
                   PROVE  /\ entries'[Key(w)] = Entry(w) \/ Vanished(Entry(w))'
                          /\ go[w].op \in {"ref", "deref"} => entries'[Key(w)] = Entry(w)
        OBVIOUS
      <4>1. Key(w) \in Keys /\ Entry(w) \in Entries /\ Entry(w) # None
        BY <3>1, SetsAssumption DEF UserOK
      <4>2. CASE Entry(w) = e
        <5>1. Vanished(Entry(w))'
          BY <1>c, <1>f, <1>g, <1>h, <2>2, <4>1, <4>2 DEF Vanished, Entry
        <5>2. ASSUME go[w].op \in {"ref", "deref"} PROVE FALSE
          <6>1. Key(w) = k
            BY <1>c, <3>1, <4>1, <4>2, <5>2 DEF UserOK
          <6>2. CASE go[w].op = "deref"
            BY <1>c, <2>2, <6>1, <6>2 DEF Counted
          <6>3. CASE go[w].op = "ref"
            BY <1>c, <3>1, <6>1, <6>3 DEF UserOK, LenderOK, Counted
          <6> QED BY <5>2, <6>2, <6>3
        <5> QED BY <5>1, <5>2
      <4>3. CASE Entry(w) # e
        <5>1. entries[Key(w)] = Entry(w) => entries'[Key(w)] = Entry(w)
          BY <1>c, <1>g, <4>1, <4>3
        <5>2. Vanished(Entry(w)) => Vanished(Entry(w))'
          BY <1>g, <1>h, <3>1, <4>1, <4>3 DEF Vanished, Entry
        <5> QED BY <3>1, <5>1, <5>2 DEF UserOK
      <4> QED BY <4>2, <4>3
    <3> QED BY <1>d, <1>h, <3>1, <3>2, <3>3, <3>4 DEF UserOK, Key, Entry
  <2> QED BY <2>1, <2>2
<1>6. ASSUME NEW x \in Entries PROVE LockOK(x)'
  <2>1. CASE x = e
    BY <1>h, <2>1 DEF LockOK
  <2>2. CASE x # e
    <3>1. LockOK(x) /\ lockedBy[x] \in Users \cup {None} /\ lockedBy'[x] = lockedBy[x]
      BY <1>a, <1>h, <2>2 DEF TypeOK
    <3>2. lockedBy[x] # u
      BY <1>c, <2>2, <3>1, SetsAssumption DEF LockOK
    <3> QED BY <1>f, <3>1, <3>2 DEF LockOK, Entry
  <2> QED BY <2>1, <2>2
<1>7. Distinct'
  BY <1>a, <1>g DEF Distinct
<1>8. ASSUME NEW j \in Keys PROVE KeyOK(j)'
  <2>1. CASE j = k
    BY <1>g, <2>1 DEF KeyOK
  <2>2. CASE j # k
    <3>1. entries'[j] = entries[j] /\ entries[j] \in (Entries \cup {None}) \ {e}
      BY <1>a, <1>c, <1>g, <2>2 DEF TypeOK
    <3> QED BY <1>a, <1>d, <1>h, <3>1 DEF KeyOK
  <2> QED BY <2>1, <2>2
<1>9. HeldOK'
  <2> SUFFICES ASSUME NEW w \in Users, NEW j \in Keys, <<w, j>> \in held
               PROVE  lockedBy'[entries'[j]] = None /\ got[<<w, j>>] = value[entries'[j]]
    BY <1>d DEF HeldOK
  <2>1. w \in Counted(j)
    BY DEF Counted
  <2>2. j # k
    BY <1>c, <2>1
  <2>3. entries[j] \in Entries \ {e} /\ entries'[j] = entries[j]
    BY <1>a, <1>c, <1>g, <2>1, <2>2, CountedEntry
  <2> QED BY <1>a, <1>h, <2>3 DEF HeldOK
<1> QED BY <1>1, <1>4, <1>5, <1>6, <1>7, <1>8, <1>9, <1>a, <1>d DEF IInv, RefFindsEntry

\* A new entry is locked and counts its maker.
LEMMA StoreEntryInv ==
  ASSUME IInv, NEW u \in Users, StoreEntry(u)
  PROVE  IInv'
<1>a. /\ TypeOK /\ CountExact /\ Distinct /\ HeldOK /\ missed = FALSE
      /\ \A w \in Users : UserOK(w)
      /\ \A x \in Entries : LockOK(x)
      /\ \A j \in Keys : KeyOK(j)
  BY DEF IInv, RefFindsEntry, TypeOK
<1>b. go[u].pc = "store" /\ UserOK(u)
  BY <1>a DEF StoreEntry
<1>c. PICK k \in Keys : k = Key(u) /\ entries[k] = None
  BY <1>b DEF UserOK, StoreEntry
<1>d. PICK e \in FreeEntries :
        /\ entries' = [entries EXCEPT ![k] = e]
        /\ lockedBy' = [lockedBy EXCEPT ![e] = u]
        /\ value' = [value EXCEPT ![e] = None] /\ refCount' = [refCount EXCEPT ![e] = 1]
        /\ go' = [go EXCEPT ![u].pc = "produce", ![u].entry = e]
  BY <1>c DEF StoreEntry, LockNew
<1>e. /\ e \in Entries /\ e # None /\ UNCHANGED <<held, got, missed>>
      /\ \A j \in Keys : entries[j] # e
      /\ \A w \in Users : Entry(w) # e
  BY <1>d, SetsAssumption DEF FreeEntries, StoreEntry
<1>f. /\ go'[u].op = go[u].op /\ go'[u].pc = "produce" /\ go'[u].key = k /\ go'[u].entry = e
      /\ go'[u] \in Operations /\ \A w \in Users \ {u} : go'[w] = go[w]
      /\ go' \in [Users -> Operations]
  <2> DEFINE o == [go[u] EXCEPT !.pc = "produce", !.entry = e]
  <2>1. go[u] \in Operations /\ u \in DOMAIN go
    BY <1>a DEF TypeOK
  <2>2. go' = [go EXCEPT ![u] = o]
    BY <1>d, <2>1
  <2>3. o \in Operations /\ o.op = go[u].op /\ o.pc = "produce" /\ o.key = k /\ o.entry = e
    BY <1>c, <1>e, <2>1 DEF Operations, Key
  <2> HIDE DEF o
  <2> QED BY <1>a, <2>1, <2>2, <2>3 DEF TypeOK
<1>g. /\ entries' \in [Keys -> Entries \cup {None}] /\ entries'[k] = e
      /\ \A j \in Keys \ {k} : entries'[j] = entries[j]
  BY <1>a, <1>d, <1>e DEF TypeOK
<1>h. /\ refCount' \in [Entries -> Nat] /\ refCount'[e] = 1
      /\ lockedBy' \in [Entries -> Users \cup {None}] /\ lockedBy'[e] = u
      /\ value' \in [Entries -> Values \cup {None}]
      /\ \A x \in Entries \ {e} : /\ refCount'[x] = refCount[x] /\ lockedBy'[x] = lockedBy[x]
                                  /\ value'[x] = value[x]
  BY <1>a, <1>d, <1>e DEF TypeOK
<1>i. Counted(k) = {} /\ <<u, k>> \notin held /\ go[u].op \in Makers
  BY <1>a, <1>b, <1>c DEF CountExact, UserOK
<1>1. TypeOK'
  BY <1>a, <1>e, <1>f, <1>g, <1>h DEF TypeOK
<1>2. Counted(k)' = {u}
  <2>1. ASSUME NEW w \in Users \ {u} PROVE w \in Counted(k)' <=> w \in Counted(k)
    BY <1>e, <1>f DEF Counted, Key
  <2>2. u \in Counted(k)'
    BY <1>f DEF Counted, Key
  <2> QED BY <1>i, <2>1, <2>2 DEF Counted
<1>3. ASSUME NEW j \in Keys \ {k} PROVE Counted(j)' = Counted(j)
  <2>1. ASSUME NEW w \in Users \ {u} PROVE w \in Counted(j)' <=> w \in Counted(j)
    BY <1>e, <1>f DEF Counted, Key
  <2>2. u \in Counted(j)' <=> u \in Counted(j)
    BY <1>c, <1>e, <1>f DEF Counted, Key
  <2> QED BY <2>1, <2>2 DEF Counted
<1>4. CountExact'
  <2> SUFFICES ASSUME NEW j \in Keys
               PROVE  IF entries'[j] = None THEN Counted(j)' = {}
                      ELSE Counted(j)' # {} /\ refCount'[entries'[j]] = Cardinality(Counted(j)')
    BY DEF CountExact
  <2>1. CASE j = k
    <3>1. Cardinality({u}) = 1
      BY FS_Singleton
    <3> QED BY <1>2, <1>e, <1>g, <1>h, <2>1, <3>1
  <2>2. CASE j # k
    <3>1. entries[j] # None => entries[j] \in Entries \ {e}
      BY <1>a, <1>e, <2>2 DEF TypeOK
    <3> QED BY <1>3, <1>a, <1>g, <1>h, <2>2, <3>1 DEF CountExact
  <2> QED BY <2>1, <2>2
<1>5. ASSUME NEW w \in Users PROVE UserOK(w)'
  <2>1. CASE w = u
    <3>1. /\ go'[w].pc = "produce" /\ go'[w].op \in Makers /\ Key(w)' = k /\ Entry(w)' = e
          /\ <<w, k>> \notin held'
      BY <1>e, <1>f, <1>i, <2>1 DEF Key, Entry
    <3> QED BY <1>e, <1>g, <1>h, <2>1, <3>1 DEF UserOK, Makers
  <2>2. CASE w # u
    <3>1. UserOK(w) /\ go'[w] = go[w] /\ Entry(w) # e
      BY <1>a, <1>e, <1>f, <2>2
    <3>2. go[w].pc \in {"lock", "produce"} /\ entries[Key(w)] = Entry(w) =>
            entries'[Key(w)] = Entry(w)
      BY <1>c, <1>g, <3>1, SetsAssumption DEF UserOK
    <3>3. go[w].pc = "lock" /\ Vanished(Entry(w)) => Vanished(Entry(w))'
      BY <1>g, <1>h, <3>1 DEF UserOK, Vanished, Entry
    <3>4. go[w].op = "ref" => LenderOK(w)'
      BY <1>e, <3>1, IdleFields DEF UserOK, LenderOK, Key
    <3> QED BY <1>e, <1>h, <3>1, <3>2, <3>3, <3>4 DEF UserOK, Key, Entry
  <2> QED BY <2>1, <2>2
<1>6. ASSUME NEW x \in Entries PROVE LockOK(x)'
  <2>1. CASE x = e
    BY <1>f, <1>h, <2>1 DEF LockOK, Entry
  <2>2. CASE x # e
    <3>1. LockOK(x) /\ lockedBy[x] \in Users \cup {None} /\ lockedBy'[x] = lockedBy[x]
      BY <1>a, <1>h, <2>2 DEF TypeOK
    <3>2. lockedBy[x] # None => lockedBy[x] # u
      BY <1>b, <3>1 DEF LockOK
    <3> QED BY <1>f, <3>1, <3>2 DEF LockOK, Entry
  <2> QED BY <2>1, <2>2
<1>7. Distinct'
  BY <1>a, <1>e, <1>g DEF Distinct
<1>8. ASSUME NEW j \in Keys PROVE KeyOK(j)'
  <2>1. CASE j = k
    BY <1>g, <1>h, <2>1, SetsAssumption DEF KeyOK
  <2>2. CASE j # k
    <3>1. entries'[j] = entries[j] /\ entries[j] \in (Entries \cup {None}) \ {e}
      BY <1>a, <1>e, <1>g, <2>2 DEF TypeOK
    <3> QED BY <1>a, <1>h, <3>1 DEF KeyOK
  <2> QED BY <2>1, <2>2
<1>9. HeldOK'
  <2> SUFFICES ASSUME NEW w \in Users, NEW j \in Keys, <<w, j>> \in held
               PROVE  lockedBy'[entries'[j]] = None /\ got[<<w, j>>] = value'[entries'[j]]
    BY <1>e DEF HeldOK
  <2>1. w \in Counted(j)
    BY DEF Counted
  <2>2. j # k
    BY <1>i, <2>1
  <2>3. entries[j] \in Entries \ {e} /\ entries'[j] = entries[j]
    BY <1>a, <1>e, <1>g, <2>1, <2>2, CountedEntry
  <2> QED BY <1>a, <1>h, <2>3 DEF HeldOK
<1> QED BY <1>1, <1>4, <1>5, <1>6, <1>7, <1>8, <1>9, <1>a, <1>e DEF IInv, RefFindsEntry

-----------------------------------------------------------------------------
(* The invariant, and what follows from it.                                     *)

\* Every step keeps the invariant.
LEMMA StepInv == ASSUME ~DisableDeletion PROVE IInv /\ [Next]_vars => IInv'
<1> SUFFICES ASSUME IInv, [Next]_vars PROVE IInv'
  OBVIOUS
<1>1. CASE UNCHANGED vars
  <2>1. \A k \in Keys : Counted(k)' = Counted(k)
    BY <1>1 DEF vars, Counted, Key
  <2> QED
    BY <1>1, <2>1 DEF vars, entryVars, IInv, TypeOK, CountExact, RefFindsEntry, UserOK,
       LenderOK, LockOK, Distinct, KeyOK, HeldOK, Vanished, Key, Entry
<1>2. ASSUME NEW u \in Users, Start(u) PROVE IInv'
  BY <1>2, StartAcquireInv, StartExistingInv, StartRefInv, StartDerefInv DEF Start
<1>3. ASSUME NEW u \in Users, Step(u) PROVE IInv'
  BY <1>3, StoreEntryInv, FindEntryInv, MissEntryInv, RetryInv, GiveUpInv, JoinInv, DerefInv,
     ProduceInv, ProduceFailsInv DEF Step
<1> QED BY <1>1, <1>2, <1>3 DEF Next

\* The inductive invariant of the cache.
THEOREM Invariant == ASSUME ~DisableDeletion PROVE Spec => []IInv
<1>1. IInv /\ [Next]_vars => IInv'
  BY StepInv
<1> QED BY <1>1, InitInv, PTL DEF Spec

\* While entries are deleted with their last reference (the parse cache of the language
\* service): the state is well typed.
THEOREM TypeCorrect == ASSUME ~DisableDeletion PROVE Spec => []TypeOK
<1>1. IInv => TypeOK
  BY DEF IInv
<1> QED BY <1>1, Invariant, PTL

\* The count of an entry is the number of its users: no file is freed while a program
\* uses it, and none is kept when nobody does (RefCountCache.Deref).
THEOREM CountsExact == ASSUME ~DisableDeletion PROVE Spec => []CountExact
<1>1. IInv => CountExact
  BY DEF IInv
<1> QED BY <1>1, Invariant, PTL

\* Ref always finds a live entry, so its panic is unreachable (RefCountCache.Ref).
THEOREM RefNeverPanics == ASSUME ~DisableDeletion PROVE Spec => []RefFindsEntry
<1>1. IInv => RefFindsEntry
  BY DEF IInv
<1> QED BY <1>1, Invariant, PTL

-----------------------------------------------------------------------------
(* The cache implements SharedValues.                                           *)

\* Those who hold a key agree on its value.
Agreement ==
  \A k \in Keys, u \in Users : <<u, k>> \in held =>
    got[<<u, k>>] \in Values /\ Shared(k) = got[<<u, k>>]

\* The invariant implies what the refinement needs.
LEMMA Agree == IInv => Agreement
<1> SUFFICES ASSUME IInv, NEW k \in Keys, NEW u \in Users, <<u, k>> \in held
             PROVE  got[<<u, k>>] \in Values /\ Shared(k) = got[<<u, k>>]
  BY DEF Agreement
<1>1. TypeOK /\ CountExact /\ HeldOK /\ KeyOK(k)
  BY DEF IInv
<1>2. entries[k] # None
  BY <1>1, CountedEntry, SetsAssumption DEF Counted
<1>3. \A w \in Users : <<w, k>> \in held => got[<<w, k>>] = value[entries[k]]
  BY <1>1 DEF HeldOK
<1>4. value[entries[k]] \in Values
  BY <1>1, <1>2 DEF HeldOK, KeyOK
<1>5. PICK w \in Holders(k) : Shared(k) = got[<<w, k>>]
  <2>1. u \in Holders(k)
    BY DEF Holders
  <2>2. (CHOOSE x \in Holders(k) : TRUE) \in Holders(k)
    BY <2>1
  <2> QED BY <2>1, <2>2 DEF Shared
<1> QED BY <1>3, <1>4, <1>5 DEF Holders

\* No user holds anything at the start.
LEMMA InitRefines == Init => Promise!Init
<1> SUFFICES ASSUME Init PROVE Promise!Init
  OBVIOUS
<1>1. \A k \in Keys : Holders(k) = {} /\ Shared(k) = None
  BY DEF Init, Holders, Shared
<1> QED BY <1>1 DEF Promise!Init

\* Who holds what is left alone: a stutter of SharedValues.
LEMMA Stutter ==
  ASSUME Agreement, Agreement', held \subseteq Users \X Keys, held' = held,
         \A u \in Users, k \in Keys : <<u, k>> \in held => got'[<<u, k>>] = got[<<u, k>>]
  PROVE  UNCHANGED Promise!vars
<1>1. \A k \in Keys : Holders(k)' = Holders(k)
  BY DEF Holders
<1>2. ASSUME NEW k \in Keys PROVE Shared(k)' = Shared(k)
  <2>1. CASE Holders(k) = {}
    BY <1>1, <2>1 DEF Shared
  <2>2. CASE Holders(k) # {}
    <3>1. PICK u \in Users : <<u, k>> \in held
      BY <2>2 DEF Holders
    <3>2. Shared(k) = got[<<u, k>>] /\ Shared(k)' = got'[<<u, k>>]
      BY <3>1 DEF Agreement
    <3> QED BY <3>1, <3>2
  <2> QED BY <2>1, <2>2
<1> QED BY <1>1, <1>2 DEF Promise!vars

\* Join and Produce: a step Hold.
LEMMA Holds ==
  ASSUME Agreement, Agreement', NEW u \in Users, NEW k \in Keys, <<u, k>> \notin held,
         held' = held \cup {<<u, k>>},
         \A w \in Users, j \in Keys : <<w, j>> # <<u, k>> => got'[<<w, j>>] = got[<<w, j>>]
  PROVE  Promise!Hold(u, k)
<1>1. Holders(k)' = Holders(k) \cup {u} /\ \A j \in Keys \ {k} : Holders(j)' = Holders(j)
  BY DEF Holders
<1>2. Shared(k)' = got'[<<u, k>>] /\ got'[<<u, k>>] \in Values
  BY DEF Agreement
<1>3. ASSUME NEW j \in Keys \ {k} PROVE Shared(j)' = Shared(j)
  <2>1. CASE Holders(j) = {}
    BY <1>1, <2>1 DEF Shared
  <2>2. CASE Holders(j) # {}
    <3>1. PICK w \in Users : <<w, j>> \in held
      BY <2>2 DEF Holders
    <3>2. Shared(j) = got[<<w, j>>] /\ Shared(j)' = got'[<<w, j>>]
      BY <3>1 DEF Agreement
    <3> QED BY <3>1, <3>2
  <2> QED BY <2>1, <2>2
<1>4. Holders(k) # {} => Shared(k)' = Shared(k)
  <2> SUFFICES ASSUME NEW w \in Users, <<w, k>> \in held PROVE Shared(k)' = Shared(k)
    BY DEF Holders
  <2>1. Shared(k) = got[<<w, k>>] /\ Shared(k)' = got'[<<w, k>>] /\ w # u
    BY DEF Agreement
  <2> QED BY <2>1
<1>5. u \notin Holders(k)
  BY DEF Holders
<1> DEFINE h == [j \in Keys |-> Holders(j)]
           s == [j \in Keys |-> Shared(j)]
<1>6. [j \in Keys |-> Holders(j)'] = [h EXCEPT ![k] = @ \cup {u}]
  BY <1>1
<1>7. [j \in Keys |-> Shared(j)'] = [s EXCEPT ![k] = Shared(k)']
  BY <1>3
<1> QED BY <1>2, <1>4, <1>5, <1>6, <1>7 DEF Promise!Hold

\* StartDeref: a step Drop.
LEMMA Drops ==
  ASSUME Agreement, Agreement', NEW u \in Users, NEW k \in Keys, <<u, k>> \in held,
         held' = held \ {<<u, k>>},
         \A w \in Users, j \in Keys : <<w, j>> # <<u, k>> => got'[<<w, j>>] = got[<<w, j>>]
  PROVE  Promise!Drop(u, k)
<1>1. Holders(k)' = Holders(k) \ {u} /\ \A j \in Keys \ {k} : Holders(j)' = Holders(j)
  BY DEF Holders
<1>2. u \in Holders(k)
  BY DEF Holders
<1>3. ASSUME NEW j \in Keys, Holders(j)' # {} PROVE Shared(j)' = Shared(j)
  <2>1. PICK w \in Users : <<w, j>> \in held' /\ <<w, j>> \in held /\ <<w, j>> # <<u, k>>
    BY <1>3 DEF Holders
  <2>2. Shared(j) = got[<<w, j>>] /\ Shared(j)' = got'[<<w, j>>]
    BY <2>1 DEF Agreement
  <2> QED BY <2>1, <2>2
<1>4. \A j \in Keys : Holders(j)' = {} => Shared(j)' = None
  BY DEF Shared
<1>5. \A j \in Keys \ {k} : Shared(j)' = Shared(j)
  <2>1. \A j \in Keys : Holders(j) = {} => Shared(j) = None
    BY DEF Shared
  <2> QED BY <1>1, <1>3, <1>4, <2>1
<1>6. Holders(k)' = {} <=> Holders(k) = {u}
  BY <1>1, <1>2
<1> DEFINE h == [j \in Keys |-> Holders(j)]
           s == [j \in Keys |-> Shared(j)]
<1>7. [j \in Keys |-> Holders(j)'] = [h EXCEPT ![k] = @ \ {u}]
  BY <1>1
<1>8. [j \in Keys |-> Shared(j)'] = [s EXCEPT ![k] = IF Holders(k) = {u} THEN None ELSE @]
  BY <1>3, <1>4, <1>5, <1>6
<1> QED BY <1>2, <1>7, <1>8 DEF Promise!Drop

\* Every step is a step of SharedValues or none.
LEMMA StepRefines ==
  ASSUME IInv, Agreement, Agreement', [Next]_vars
  PROVE  [Promise!Next]_(Promise!vars)
<1>a. held \subseteq Users \X Keys /\ got \in [Users \X Keys -> Values \cup {None}]
  BY DEF IInv, TypeOK
<1>1. CASE UNCHANGED vars
  BY <1>a, <1>1, Stutter DEF vars
<1>2. ASSUME NEW u \in Users, StartAcquire(u) \/ StartExisting(u) \/ StoreEntry(u) \/ FindEntry(u)
               \/ MissEntry(u) \/ Retry(u) \/ GiveUp(u) \/ Deref(u) \/ ProduceFails(u)
      PROVE  UNCHANGED Promise!vars
  <2>1. held' = held /\ got' = got
    BY <1>2 DEF StartAcquire, StartExisting, StoreEntry, FindEntry, MissEntry, Retry, GiveUp,
       Deref, ProduceFails
  <2> QED BY <1>a, <2>1, Stutter
<1>3. ASSUME NEW u \in Users, StartRef(u) PROVE UNCHANGED Promise!vars
  <2>1. PICK k \in Keys, w \in Users :
          <<u, k>> \notin held /\ got' = [got EXCEPT ![<<u, k>>] = got[<<w, k>>]]
    BY <1>3 DEF StartRef
  <2>2. held' = held
    BY <1>3 DEF StartRef
  <2>3. \A x \in Users, j \in Keys : <<x, j>> \in held => got'[<<x, j>>] = got[<<x, j>>]
    BY <1>a, <2>1
  <2> QED BY <1>a, <2>2, <2>3, Stutter
<1>4. ASSUME NEW u \in Users, StartDeref(u) PROVE Promise!Next
  <2>1. PICK k \in Keys : /\ <<u, k>> \in held /\ held' = held \ {<<u, k>>}
                          /\ got' = [got EXCEPT ![<<u, k>>] = None]
    BY <1>4 DEF StartDeref
  <2>2. \A w \in Users, j \in Keys : <<w, j>> # <<u, k>> => got'[<<w, j>>] = got[<<w, j>>]
    BY <1>a, <2>1
  <2>3. Promise!Drop(u, k)
    BY <2>1, <2>2, Drops
  <2> QED BY <2>3 DEF Promise!Next
<1>5. ASSUME NEW u \in Users, Join(u) \/ Produce(u) PROVE Promise!Next
  <2>1. UserOK(u) /\ go[u].pc # "idle"
    BY <1>5 DEF IInv, Join, Produce, Locks
  <2>2. PICK k \in Keys : k = Key(u) /\ <<u, k>> \notin held
    BY <2>1 DEF UserOK
  <2>3. PICK v : got' = [got EXCEPT ![<<u, k>>] = v]
    BY <1>5, <2>2 DEF Join, Produce
  <2>4. held' = held \cup {<<u, k>>}
    BY <1>5, <2>2 DEF Join, Produce
  <2>5. \A w \in Users, j \in Keys : <<w, j>> # <<u, k>> => got'[<<w, j>>] = got[<<w, j>>]
    BY <1>a, <2>3
  <2>6. Promise!Hold(u, k)
    BY <2>2, <2>4, <2>5, Holds
  <2> QED BY <2>6 DEF Promise!Next
<1> QED BY <1>1, <1>2, <1>3, <1>4, <1>5 DEF Next, Start, Step

\* Everybody who holds a file at the same time has the same object: the cache implements
\* SharedValues (refcountcache.go, Acquire).
THEOREM Implements == ASSUME ~DisableDeletion PROVE Spec => SharesValues
<1>1. IInv => Agreement
  BY Agree
<1>2. IInv /\ Agreement /\ Agreement' /\ [Next]_vars => [Promise!Next]_(Promise!vars)
  BY StepRefines
<1>3. Init => Promise!Init
  BY InitRefines
<1> QED BY <1>1, <1>2, <1>3, Invariant, PTL DEF Spec, SharesValues, Promise!Spec

\* The invariant that TLC checks (refcountcache.go as a whole).
THEOREM CountsAlwaysKept == ASSUME ~DisableDeletion PROVE Spec => []CountsKept
  BY TypeCorrect, CountsExact, RefNeverPanics, PTL DEF CountsKept

-----------------------------------------------------------------------------
(* The copy-on-write map of a snapshot: its invariant.                          *)

\* Every object is the one in the dirty map, a proxy of it, or as it was made.
Objects ==
  /\ dirty = Nil => \A o \in Goroutines : entry[o] = NoEntry
  /\ dirty # Nil =>
       /\ entry[dirty].proxy = Nil
       /\ entry[dirty].val = IF entry[dirty].dirty THEN dirty ELSE Base
       /\ \A o \in Goroutines \ {dirty} : entry[o] = NoEntry \/ entry[o].proxy = dirty

Holding == {"locked", "won", "lost"}

\* A handle is an object of one's own, or the one in the dirty map; a goroutine that has
\* locked it works on it or on the object it stands for.
HandleOf(g) ==
  /\ handle[g] \in {Nil, g, dirty}
  /\ handle[g] = g /\ g # dirty => inBase
  /\ pc[g] = "start" => handle[g] = Nil
  /\ pc[g] \notin {"start", "done"} => handle[g] # Nil
  /\ pc[g] \in Holding => /\ cur[g] # Nil /\ cur[g] \in locks[g]
                          /\ cur[g] \in {handle[g], entry[handle[g]].proxy}
Handles == \A g \in Goroutines : HandleOf(g)

\* Who is in the race for the dirty map has an object of its own that nobody has changed.
RacerOf(g) ==
  /\ pc[g] \in {"won", "lost"} => /\ cur[g] = g /\ handle[g] = g /\ entry[g] = NoEntry
                                  /\ op[g] \in {"retain", "release", "settle"}
  /\ pc[g] = "won" => dirty = g
  /\ pc[g] = "lost" => dirty \notin {Nil, g}
Racing == \A g \in Goroutines : RacerOf(g)

\* An object in the dirty map that is not dirty has just won, and is known to its goroutine
\* only, or it has been deleted, and all who know it are told so.
JustWon ==
  /\ pc[dirty] = "won"
  /\ \A g \in Goroutines \ {dirty} : handle[g] # dirty /\ entry[g] = NoEntry
DeletedClean ==
  \A g \in Goroutines :
    handle[g] # Nil /\ dirty \in {handle[g], entry[handle[g]].proxy} => pc[g] \in {"check", "done"}
Clean ==
  dirty # Nil /\ ~entry[dirty].dirty =>
    /\ inBase
    /\ ~entry[dirty].del => JustWon
    /\ entry[dirty].del => DeletedClean

\* Everybody's mark is in the value of the key as its goroutine left it, and, as long as the
\* goroutine has an unchanged object of its own, in the value of the base; nobody has a mark on
\* a key that is nowhere.
Marks ==
  /\ Finalized # Nil => \A g \in Goroutines : g \in Finalized.marks <=> own[g]
  /\ \A g \in Goroutines : handle[g] = g /\ entry[g].proxy = Nil /\ ~entry[g].dirty
                             => (g \in cell[Base].marks <=> own[g])
  /\ ~inBase /\ dirty = Nil => \A g \in Goroutines : ~own[g]

\* The value of the key is not stale when that of the base is not.
StaleOnlyOnce == inBase /\ Finalized # Nil /\ Finalized.stale => cell[Base].stale

MapInv == MapTypeOK /\ Objects /\ Handles /\ Racing /\ Clean /\ Marks /\ StaleOnlyOnce /\ Settled

-----------------------------------------------------------------------------
(* What the invariant says of the objects and of the value of the key.          *)

\* Neither a goroutine nor the base is Nil, and a value is not Nil either.
LEMMA Names == /\ \A g \in Goroutines : g # Nil /\ g # Base
               /\ Goroutines \subseteq Cells /\ Base \in Cells
               /\ Nil \notin Value
               /\ MaxOps \in Nat /\ MaxText \in Nat
BY GoroutinesAssumption, NilAssumption, BoundsAssumption DEF Cells

\* An entry that has just been made.
LEMMA Untouched == NoEntry.val = Base /\ ~NoEntry.dirty /\ ~NoEntry.del /\ NoEntry.proxy = Nil
BY DEF NoEntry

\* finalize yields the value of the object in the dirty map, or that of the base, or nothing.
LEMMA FinalizedOf ==
  ASSUME MapInv
  PROVE  /\ dirty # Nil /\ entry[dirty].del => Finalized = Nil
         /\ dirty # Nil /\ ~entry[dirty].del => Finalized = ValueOf(dirty)
         /\ dirty = Nil => Finalized = IF inBase THEN cell[Base] ELSE Nil
         /\ dirty # Nil => ValueOf(dirty) = cell[IF entry[dirty].dirty THEN dirty ELSE Base]
         /\ dirty # Nil => ValueOf(dirty) \in Value
         /\ cell[Base] \in Value
         /\ Finalized # Nil => Finalized \in Value
<1> USE Names
<1>1. dirty # Nil => dirty \in Goroutines
  BY DEF MapInv, MapTypeOK
<1>2. dirty # Nil => entry[dirty].val = IF entry[dirty].dirty THEN dirty ELSE Base
  BY DEF MapInv, Objects
<1>3. dirty # Nil /\ ~entry[dirty].dirty => inBase
  BY DEF MapInv, Clean
<1>4. \A c \in Cells : cell[c] \in Value
  BY DEF MapInv, MapTypeOK
<1>5. dirty # Nil => ValueOf(dirty) = cell[IF entry[dirty].dirty THEN dirty ELSE Base]
  BY <1>2 DEF ValueOf
<1>6. dirty # Nil => ValueOf(dirty) \in Value
  BY <1>1, <1>4, <1>5
<1>7. dirty # Nil /\ ~entry[dirty].del => Finalized = ValueOf(dirty)
  BY <1>3, <1>5 DEF Finalized
<1>8. dirty # Nil /\ entry[dirty].del => Finalized = Nil
  BY DEF Finalized
<1>9. dirty = Nil => Finalized = IF inBase THEN cell[Base] ELSE Nil
  BY DEF Finalized
<1> QED BY <1>1, <1>4, <1>5, <1>6, <1>7, <1>8, <1>9

\* An operation that has been routed works on the dirty object of the dirty map, or on an
\* unchanged object of its own.
LEMMA Routing ==
  ASSUME MapInv, NEW g \in Goroutines, Routed(g)
  PROVE  \/ /\ dirty # Nil /\ cur[g] = dirty /\ entry[dirty].dirty
            /\ handle[g] = g => g = dirty \/ entry[g].proxy = dirty
         \/ /\ cur[g] = g /\ handle[g] = g /\ g # dirty /\ entry[g] = NoEntry /\ inBase
<1> USE Names
<1>1. pc[g] = "locked" /\ entry[cur[g]].proxy = Nil
  BY DEF Routed
<1>2. /\ handle[g] \in {g, dirty} /\ handle[g] # Nil
      /\ handle[g] = g /\ g # dirty => inBase
      /\ cur[g] # Nil /\ cur[g] \in {handle[g], entry[handle[g]].proxy}
  BY <1>1 DEF MapInv, Handles, HandleOf, Holding
<1>3. dirty # Nil =>
        /\ dirty \in Goroutines /\ entry[dirty].proxy = Nil
        /\ g # dirty => entry[g] = NoEntry \/ entry[g].proxy = dirty
  BY DEF MapInv, MapTypeOK, Objects
<1>4. dirty = Nil => entry[g] = NoEntry
  BY DEF MapInv, Objects
<1>5. cur[g] = dirty \/ (cur[g] = g /\ handle[g] = g /\ g # dirty /\ entry[g] = NoEntry)
  BY <1>1, <1>2, <1>3, <1>4, Untouched
<1>6. cur[g] = dirty => entry[dirty].dirty
  <2> SUFFICES ASSUME cur[g] = dirty, ~entry[dirty].dirty
               PROVE  FALSE
    OBVIOUS
  <2>1. dirty # Nil
    BY <1>2
  <2>2. CASE entry[dirty].del
    BY <1>1, <1>2, <2>1, <2>2 DEF MapInv, Clean, DeletedClean
  <2>3. CASE ~entry[dirty].del
    <3>1. pc[dirty] = "won" /\ (g # dirty => handle[g] # dirty /\ entry[g] = NoEntry)
      BY <2>1, <2>3 DEF MapInv, Clean, JustWon
    <3>2. g # dirty
      BY <1>1, <3>1
    <3> QED BY <1>2, <3>1, <3>2, <2>1, Untouched
  <2> QED BY <2>2, <2>3
<1>7. cur[g] = dirty /\ handle[g] = g => g = dirty \/ entry[g].proxy = dirty
  BY <1>2
<1> QED BY <1>2, <1>5, <1>6, <1>7

\* A step that leaves the map, the objects and their values alone leaves the key alone.
LEMMA SameValue ==
  ASSUME UNCHANGED <<inBase, dirty, entry, cell>>
  PROVE  Finalized' = Finalized /\ Deleted' = Deleted
BY DEF Finalized, Deleted, ValueOf

\* A goroutine makes an object of its own only from the base.
OwnHandles ==
  \A g \in Goroutines : handle'[g] = g => handle[g] = g \/ entry[g].dirty \/ (dirty = Nil /\ inBase)

\* A goroutine's account of its mark changes only when the key is deleted.
OwnKept ==
  \A g \in Goroutines :
    \/ own'[g] <=> own[g]
    \/ Finalized = Nil /\ dirty # Nil /\ (handle'[g] = g => entry[g].proxy # Nil \/ entry[g].dirty)

\* Such a step keeps the invariant if it keeps these parts of it.
LEMMA MapQuietStep ==
  ASSUME MapInv, UNCHANGED <<inBase, dirty, entry, cell>>, OwnHandles, OwnKept,
         MapTypeOK', Handles', Racing', Clean', Settled'
  PROVE  MapInv'
<1>1. Objects'
  BY DEF MapInv, Objects
<1>2. StaleOnlyOnce'
  BY SameValue DEF MapInv, StaleOnlyOnce
<1>3. Marks'
  <2>1. Finalized # Nil => \A g \in Goroutines : g \in Finalized.marks <=> own[g]
    BY DEF MapInv, Marks
  <2>2. \A g \in Goroutines : handle[g] = g /\ entry[g].proxy = Nil /\ ~entry[g].dirty
                             => (g \in cell[Base].marks <=> own[g])
    BY DEF MapInv, Marks
  <2>3. dirty = Nil /\ inBase => Finalized = cell[Base] /\ Finalized # Nil
    BY FinalizedOf, Names
  <2>4. \A g \in Goroutines : handle'[g] = g /\ entry[g].proxy = Nil /\ ~entry[g].dirty
                             => (g \in cell[Base].marks <=> own'[g])
    BY <2>1, <2>2, <2>3 DEF OwnHandles, OwnKept
  <2>5. ~inBase /\ dirty = Nil => \A g \in Goroutines : ~own'[g]
    BY DEF MapInv, Marks, OwnKept
  <2>6. Finalized # Nil => \A g \in Goroutines : g \in Finalized.marks <=> own'[g]
    BY <2>1 DEF OwnKept
  <2> QED BY <2>4, <2>5, <2>6, SameValue DEF Marks
<1> QED BY <1>1, <1>2, <1>3 DEF MapInv

-----------------------------------------------------------------------------
(* Steps that change nothing of the key: getting a handle, locking, reading.    *)

\* When nobody has locked the object in the dirty map, nobody is about to clone its value.
LEMMA NobodyAbout ==
  ASSUME MapInv, dirty # Nil, Free(dirty)
  PROVE  pc[dirty] # "won" /\ (entry[dirty].dirty \/ entry[dirty].del)
<1>1. dirty \in Goroutines
  BY DEF MapInv, MapTypeOK
<1>2. pc[dirty] # "won"
  BY <1>1 DEF MapInv, Handles, HandleOf, Holding, Racing, RacerOf, Free
<1> QED BY <1>2 DEF MapInv, Clean, JustWon

\* A goroutine that looks for the key gets a handle or is through with it.
LEMMA FoundKeeps ==
  ASSUME MapInv, NEW g \in Goroutines, pc[g] = "start",
         UNCHANGED <<inBase, dirty, entry, cell, op, cur, locks, buf, out, own, ops, disk>>,
         \/ pc' = [pc EXCEPT ![g] = "done"] /\ handle' = handle
         \/ /\ pc' = [pc EXCEPT ![g] = "ready"]
            /\ \/ dirty # Nil /\ Free(dirty) /\ ~entry[dirty].del /\ handle' = [handle EXCEPT ![g] = dirty]
               \/ dirty = Nil /\ inBase /\ handle' = [handle EXCEPT ![g] = g]
  PROVE  MapInv'
<1> USE Names
<1> DEFINE Other == \A h \in Goroutines \ {g} : handle'[h] = handle[h] /\ pc'[h] = pc[h]
<1>0. MapTypeOK /\ handle[g] = Nil
  BY DEF MapInv, Handles, HandleOf
<1>1. dirty # Nil => dirty \in Goroutines
  BY <1>0 DEF MapTypeOK
<1>2. Other
  BY <1>0 DEF MapTypeOK
<1>3. \/ pc'[g] = "done" /\ handle'[g] = Nil
      \/ pc'[g] = "ready" /\ dirty # Nil /\ Free(dirty) /\ ~entry[dirty].del /\ handle'[g] = dirty
      \/ pc'[g] = "ready" /\ dirty = Nil /\ inBase /\ handle'[g] = g
  BY <1>0 DEF MapTypeOK
<1> HIDE DEF Other
<1>4. MapTypeOK'
  <2>1. handle' \in [Goroutines -> Goroutines \cup {Nil}]
    BY <1>0, <1>1 DEF MapTypeOK
  <2>2. pc' \in [Goroutines -> {"start", "ready", "locked", "won", "lost", "reading", "read",
                              "check", "return", "done"}]
    BY <1>0 DEF MapTypeOK
  <2> QED BY <1>0, <2>1, <2>2 DEF MapTypeOK
<1>5. OwnHandles
  <2>1. dirty # Nil /\ Free(dirty) /\ ~entry[dirty].del => entry[dirty].dirty
    BY NobodyAbout
  <2> QED BY <1>2, <1>3, <2>1 DEF OwnHandles, Other
<1>6. Handles'
  <2> SUFFICES ASSUME NEW h \in Goroutines
               PROVE  HandleOf(h)'
    BY DEF Handles
  <2>1. CASE h = g
    BY <1>3, <2>1 DEF HandleOf, Holding
  <2>2. CASE h # g
    <3>1. HandleOf(h)
      BY DEF MapInv, Handles
    <3> QED BY <1>2, <2>2, <3>1 DEF Other, HandleOf
  <2> QED BY <2>1, <2>2
<1>7. Racing'
  <2>1. pc'[g] \notin {"won", "lost"}
    BY <1>3
  <2> QED BY <1>2, <2>1 DEF MapInv, Racing, RacerOf, Other
<1>8. Clean'
  <2> SUFFICES ASSUME dirty # Nil, ~entry[dirty].dirty
               PROVE  inBase /\ (~entry[dirty].del => JustWon') /\ (entry[dirty].del => DeletedClean')
    BY DEF Clean
  <2>1. inBase /\ (~entry[dirty].del => JustWon) /\ (entry[dirty].del => DeletedClean)
    BY DEF MapInv, Clean
  <2>2. pc'[g] = "done" /\ handle'[g] = Nil
    BY <1>3, NobodyAbout
  <2>3. ~entry[dirty].del => g # dirty
    BY <2>1 DEF JustWon
  <2> QED BY <1>1, <1>2, <2>1, <2>2, <2>3 DEF Other, JustWon, DeletedClean
<1>9. Settled'
  <2>1. pc'[g] \notin {"check", "return"}
    BY <1>3
  <2> QED BY <1>2, <2>1, SameValue DEF MapInv, Settled, Other
<1>10. OwnKept
  BY DEF OwnKept
<1> QED BY <1>4, <1>5, <1>6, <1>7, <1>8, <1>9, <1>10, MapQuietStep

\* A goroutine gets a handle.
LEMMA LoadKeeps == ASSUME MapInv, NEW g \in Goroutines, Load(g) PROVE MapInv'
<1>1. /\ pc[g] = "start"
      /\ UNCHANGED <<inBase, dirty, entry, cell, op, cur, locks, buf, out, own, ops, disk>>
  BY DEF Load, FromDirty, CleanEntry
<1>2. \/ pc' = [pc EXCEPT ![g] = "done"] /\ handle' = handle
      \/ /\ pc' = [pc EXCEPT ![g] = "ready"]
         /\ \/ dirty # Nil /\ Free(dirty) /\ ~entry[dirty].del /\ handle' = [handle EXCEPT ![g] = dirty]
            \/ dirty = Nil /\ inBase /\ handle' = [handle EXCEPT ![g] = g]
  BY DEF Load, FromDirty, CleanEntry
<1> QED BY <1>1, <1>2, FoundKeeps

\* What the other goroutines do with their handles stays as it is.
Alone(g) ==
  \A h \in Goroutines \ {g} : pc'[h] = pc[h] /\ op'[h] = op[h] /\ cur'[h] = cur[h] /\ locks'[h] = locks[h]

\* Who knows of a clean object in the dirty map.
Knows(g) == handle[g] # Nil /\ dirty \in {handle[g], entry[handle[g]].proxy}

\* A step of one goroutine that only moves its own operation on.
LEMMA MoveKeeps ==
  ASSUME MapInv, NEW g \in Goroutines, MapTypeOK', Alone(g),
         UNCHANGED <<inBase, dirty, entry, cell, handle>>, OwnKept,
         pc[g] \notin {"start", "won", "done"}, HandleOf(g)', RacerOf(g)',
         pc[g] = "check" /\ dirty # Nil /\ Knows(g) /\ entry[dirty].del => pc'[g] = "done",
         pc'[g] \in {"check", "return"} /\ Finalized # Nil => ~Finalized.stale
  PROVE  MapInv'
<1>1. OwnHandles
  BY DEF OwnHandles
<1>2. Handles'
  <2>1. \A h \in Goroutines \ {g} : HandleOf(h) => HandleOf(h)'
    BY DEF Alone, HandleOf, Holding
  <2> QED BY <2>1 DEF MapInv, Handles
<1>3. Racing'
  <2>1. \A h \in Goroutines \ {g} : RacerOf(h) => RacerOf(h)'
    BY DEF Alone, RacerOf
  <2> QED BY <2>1 DEF MapInv, Racing
<1>4. Clean'
  <2> SUFFICES ASSUME dirty # Nil, ~entry[dirty].dirty
               PROVE  inBase /\ (~entry[dirty].del => JustWon') /\ (entry[dirty].del => DeletedClean')
    BY DEF Clean
  <2>1. inBase /\ (~entry[dirty].del => JustWon) /\ (entry[dirty].del => DeletedClean)
    BY DEF MapInv, Clean
  <2>2. dirty \in Goroutines
    BY DEF MapInv, MapTypeOK
  <2>3. ~entry[dirty].del => JustWon'
    BY <2>1, <2>2 DEF JustWon, Alone
  <2>4. entry[dirty].del => DeletedClean'
    BY <2>1 DEF DeletedClean, Alone, Knows
  <2> QED BY <2>1, <2>3, <2>4
<1>5. Settled'
  <2>1. \A h \in Goroutines : pc'[h] \in {"check", "return"} /\ Finalized # Nil => ~Finalized.stale
    BY DEF MapInv, Settled, Alone
  <2> QED BY <2>1, SameValue DEF Settled
<1> QED BY <1>1, <1>2, <1>3, <1>4, <1>5, MapQuietStep

\* The value of the key is what a goroutine finds in the object it was routed to.
LEMMA SeenValue ==
  ASSUME MapInv, NEW g \in Goroutines, Routed(g), Finalized # Nil
  PROVE  /\ cur[g] = dirty => ValueOf(cur[g]) = Finalized /\ ~entry[cur[g]].del
         /\ cur[g] # dirty => ValueOf(cur[g]) = cell[Base] /\ inBase /\ ~entry[cur[g]].del
                              /\ (g \in cell[Base].marks <=> own[g])
<1>1. CASE cur[g] = dirty
  BY <1>1, Routing, FinalizedOf
<1>2. CASE cur[g] # dirty
  <2>1. cur[g] = g /\ handle[g] = g /\ entry[g] = NoEntry /\ inBase
    BY <1>2, Routing
  <2>2. g \in cell[Base].marks <=> own[g]
    BY <2>1, Untouched DEF MapInv, Marks
  <2> QED BY <1>2, <2>1, <2>2, Untouched DEF ValueOf
<1> QED BY <1>1, <1>2

\* An operation locks the handle's object.
LEMMA BeginKeeps == ASSUME MapInv, NEW g \in Goroutines, LockHandle(g) PROVE MapInv'
<1> USE Names
<1>1. MapTypeOK /\ HandleOf(g) /\ handle[g] # Nil /\ handle[g] \in Goroutines
  BY DEF MapInv, Handles, HandleOf, LockHandle, MapTypeOK
<1>2. MapTypeOK'
  <2>1. op' \in [Goroutines -> Ops]
    BY <1>1 DEF MapTypeOK, LockHandle, Ops
  <2>2. ops' \in [Goroutines -> 0..MaxOps]
    BY <1>1 DEF MapTypeOK, LockHandle
  <2>3. pc' \in [Goroutines -> {"start", "ready", "locked", "won", "lost", "reading", "read",
                              "check", "return", "done"}]
    BY <1>1 DEF MapTypeOK, LockHandle
  <2>4. locks' \in [Goroutines -> SUBSET Goroutines] /\ cur' \in [Goroutines -> Goroutines \cup {Nil}]
    BY <1>1 DEF MapTypeOK, LockHandle
  <2> QED BY <1>1, <2>1, <2>2, <2>3, <2>4 DEF MapTypeOK, LockHandle
<1>3. Alone(g)
  BY <1>1 DEF LockHandle, Alone, MapTypeOK
<1>4. pc'[g] = "locked" /\ cur'[g] = handle[g] /\ locks'[g] = {handle[g]} /\ pc[g] = "ready"
  BY <1>1 DEF LockHandle, MapTypeOK
<1>5. UNCHANGED <<inBase, dirty, entry, cell, handle, own>>
  BY DEF LockHandle
<1> OwnKept
  BY DEF LockHandle, OwnKept
<1>6. HandleOf(g)'
  BY <1>1, <1>4, <1>5 DEF HandleOf
<1>7. RacerOf(g)'
  BY <1>4 DEF RacerOf
<1> QED BY <1>2, <1>3, <1>4, <1>5, <1>6, <1>7, MoveKeeps

\* A reload locks it again.
LEMMA RelockKeeps == ASSUME MapInv, NEW g \in Goroutines, Relock(g) PROVE MapInv'
<1> USE Names
<1>1. MapTypeOK /\ HandleOf(g) /\ handle[g] # Nil /\ handle[g] \in Goroutines
  BY DEF MapInv, Handles, HandleOf, Relock, MapTypeOK
<1>2. MapTypeOK'
  <2>1. pc' \in [Goroutines -> {"start", "ready", "locked", "won", "lost", "reading", "read",
                              "check", "return", "done"}]
    BY <1>1 DEF MapTypeOK, Relock
  <2>2. locks' \in [Goroutines -> SUBSET Goroutines] /\ cur' \in [Goroutines -> Goroutines \cup {Nil}]
    BY <1>1 DEF MapTypeOK, Relock
  <2> QED BY <1>1, <2>1, <2>2 DEF MapTypeOK, Relock
<1>3. Alone(g)
  BY <1>1 DEF Relock, Alone, MapTypeOK
<1>4. pc'[g] = "locked" /\ cur'[g] = handle[g] /\ locks'[g] = {handle[g]} /\ pc[g] = "read"
  BY <1>1 DEF Relock, MapTypeOK
<1>5. UNCHANGED <<inBase, dirty, entry, cell, handle, own>>
  BY DEF Relock
<1> OwnKept
  BY DEF Relock, OwnKept
<1>6. HandleOf(g)'
  BY <1>1, <1>4, <1>5 DEF HandleOf
<1>7. RacerOf(g)'
  BY <1>4 DEF RacerOf
<1> QED BY <1>2, <1>3, <1>4, <1>5, <1>6, <1>7, MoveKeeps

\* A proxy leads to the object it stands for.
LEMMA RouteKeeps == ASSUME MapInv, NEW g \in Goroutines, Route(g) PROVE MapInv'
<1> USE Names
<1> DEFINE p == entry[cur[g]].proxy
<1>1. MapTypeOK /\ HandleOf(g) /\ handle[g] \in {g, dirty} /\ handle[g] # Nil
  BY DEF MapInv, Handles, HandleOf, Route
<1>2. pc[g] = "locked" /\ p # Nil
  BY DEF Route
<1>3. cur[g] # Nil /\ cur[g] \in {handle[g], entry[handle[g]].proxy}
  BY <1>1, <1>2 DEF HandleOf, Holding
<1>4. dirty # Nil /\ entry[dirty].proxy = Nil
  <2>1. cur[g] \in Goroutines
    BY <1>1, <1>3 DEF MapTypeOK
  <2> QED BY <1>2, <2>1, Untouched DEF MapInv, Objects
<1>5. \A o \in Goroutines : entry[o].proxy \in {Nil, dirty}
  BY <1>4, Untouched DEF MapInv, Objects
<1>6. p = dirty /\ cur[g] = handle[g] /\ p \in Goroutines
  BY <1>1, <1>2, <1>3, <1>4, <1>5 DEF MapTypeOK
<1>7. Alone(g)
  BY <1>1 DEF Route, Alone, MapTypeOK
<1>8. pc'[g] = "locked" /\ cur'[g] = p /\ p \in locks'[g]
  BY <1>1, <1>2 DEF Route, MapTypeOK
<1>9. UNCHANGED <<inBase, dirty, entry, cell, handle, own>>
  BY DEF Route
<1> OwnKept
  BY DEF Route, OwnKept
<1>10. HandleOf(g)'
  BY <1>1, <1>6, <1>8, <1>9 DEF HandleOf
<1>11. RacerOf(g)'
  BY <1>8 DEF RacerOf
<1>12. MapTypeOK'
  <2>1. locks' \in [Goroutines -> SUBSET Goroutines]
    BY <1>1, <1>6 DEF MapTypeOK, Route
  <2>2. cur' \in [Goroutines -> Goroutines \cup {Nil}]
    BY <1>1, <1>6 DEF MapTypeOK, Route
  <2> QED BY <1>1, <2>1, <2>2 DEF MapTypeOK, Route
<1> QED BY <1>2, <1>7, <1>8, <1>9, <1>10, <1>11, <1>12, MoveKeeps

\* A reload unlocks before it reads the disk.
LEMMA UnlockKeeps == ASSUME MapInv, NEW g \in Goroutines, Unlock(g) PROVE MapInv'
<1> USE Names
<1>1. MapTypeOK /\ HandleOf(g) /\ RacerOf(g)
  BY DEF MapInv, Handles, Racing
<1>2. MapTypeOK'
  <2>1. pc' \in [Goroutines -> {"start", "ready", "locked", "won", "lost", "reading", "read",
                              "check", "return", "done"}]
    BY <1>1 DEF MapTypeOK, Unlock
  <2>2. locks' \in [Goroutines -> SUBSET Goroutines] /\ cur' \in [Goroutines -> Goroutines \cup {Nil}]
    BY <1>1 DEF MapTypeOK, Unlock
  <2> QED BY <1>1, <2>1, <2>2 DEF MapTypeOK, Unlock
<1>3. Alone(g)
  BY <1>1 DEF Unlock, Alone, MapTypeOK
<1>4. pc[g] = "locked" /\ pc'[g] = "reading"
  BY <1>1 DEF Unlock, Routed, MapTypeOK
<1>5. UNCHANGED <<inBase, dirty, entry, cell, handle>>
  BY DEF Unlock
<1>6. OwnKept
  BY DEF Unlock, OwnKept
<1>7. HandleOf(g)'
  BY <1>1, <1>4, <1>5 DEF HandleOf, Holding
<1>8. RacerOf(g)'
  BY <1>4 DEF RacerOf
<1> QED BY <1>2, <1>3, <1>4, <1>5, <1>6, <1>7, <1>8, MoveKeeps

\* It reads the disk.
LEMMA ReadFileKeeps == ASSUME MapInv, NEW g \in Goroutines, ReadFile(g) PROVE MapInv'
<1> USE Names
<1>1. MapTypeOK /\ HandleOf(g) /\ RacerOf(g)
  BY DEF MapInv, Handles, Racing
<1>2. MapTypeOK'
  <2>1. pc' \in [Goroutines -> {"start", "ready", "locked", "won", "lost", "reading", "read",
                              "check", "return", "done"}]
    BY <1>1 DEF MapTypeOK, ReadFile
  <2>2. buf' \in [Goroutines -> Texts \cup {Gone}] /\ op' \in [Goroutines -> Ops]
    BY <1>1 DEF MapTypeOK, ReadFile, Ops
  <2> QED BY <1>1, <2>1, <2>2 DEF MapTypeOK, ReadFile
<1>3. Alone(g)
  BY <1>1 DEF ReadFile, Alone, MapTypeOK
<1>4. pc[g] = "reading" /\ pc'[g] = "read"
  BY <1>1 DEF ReadFile, MapTypeOK
<1>5. UNCHANGED <<inBase, dirty, entry, cell, handle>>
  BY DEF ReadFile
<1>6. OwnKept
  BY DEF ReadFile, OwnKept
<1>7. HandleOf(g)'
  BY <1>1, <1>4, <1>5 DEF HandleOf, Holding
<1>8. RacerOf(g)'
  BY <1>4 DEF RacerOf
<1> QED BY <1>2, <1>3, <1>4, <1>5, <1>6, <1>7, <1>8, MoveKeeps

\* A goroutine leaves the key.
LEMMA LeaveKeeps == ASSUME MapInv, NEW g \in Goroutines, Leave(g) PROVE MapInv'
<1> USE Names
<1>1. MapTypeOK /\ HandleOf(g) /\ RacerOf(g)
  BY DEF MapInv, Handles, Racing
<1>2. MapTypeOK'
  <2>1. pc' \in [Goroutines -> {"start", "ready", "locked", "won", "lost", "reading", "read",
                              "check", "return", "done"}]
    BY <1>1 DEF MapTypeOK, Leave
  <2> QED BY <1>1, <2>1 DEF MapTypeOK, Leave
<1>3. Alone(g)
  BY <1>1 DEF Leave, Alone, MapTypeOK
<1>4. pc[g] = "ready" /\ pc'[g] = "done"
  BY <1>1 DEF Leave, MapTypeOK
<1>5. UNCHANGED <<inBase, dirty, entry, cell, handle>>
  BY DEF Leave
<1>6. OwnKept
  BY DEF Leave, OwnKept
<1>7. HandleOf(g)'
  BY <1>1, <1>4, <1>5 DEF HandleOf, Holding
<1>8. RacerOf(g)'
  BY <1>4 DEF RacerOf
<1> QED BY <1>2, <1>3, <1>4, <1>5, <1>6, <1>7, <1>8, MoveKeeps

\* Holder: the object in the dirty map, or an unchanged one.
LEMMA HolderOf ==
  ASSUME MapInv, NEW g \in Goroutines, handle[g] # Nil
  PROVE  /\ Holder(g) \in Goroutines
         /\ dirty # Nil /\ Knows(g) => Holder(g) = dirty
<1> USE Names
<1>1. handle[g] \in Goroutines /\ \A o \in Goroutines : entry[o].proxy \in Goroutines \cup {Nil}
  BY DEF MapInv, MapTypeOK
<1>2. Holder(g) \in Goroutines
  BY <1>1 DEF Holder
<1>3. dirty # Nil => entry[dirty].proxy = Nil
  BY DEF MapInv, Objects
<1>4. dirty # Nil /\ Knows(g) => Holder(g) = dirty
  BY <1>3 DEF Holder, Knows
<1> QED BY <1>2, <1>4

\* A reload asks whether the file is gone.
LEMMA CheckValueKeeps == ASSUME MapInv, NEW g \in Goroutines, CheckValue(g) PROVE MapInv'
<1> USE Names
<1>1. MapTypeOK /\ HandleOf(g) /\ RacerOf(g)
  BY DEF MapInv, Handles, Racing
<1>2. pc[g] = "check" /\ handle[g] # Nil
  BY <1>1 DEF CheckValue, HandleOf
<1>3. pc'[g] = IF entry[Holder(g)].del THEN "done" ELSE "return"
  BY <1>1 DEF CheckValue, MapTypeOK, WhenGone
<1>4. UNCHANGED <<inBase, dirty, entry, cell, handle>>
  BY DEF CheckValue
<1>5. MapTypeOK'
  <2>1. pc' \in [Goroutines -> {"start", "ready", "locked", "won", "lost", "reading", "read",
                              "check", "return", "done"}]
    BY <1>1 DEF MapTypeOK, CheckValue, WhenGone
  <2>2. out' \in [Goroutines -> [cell : Cells, text : Texts \cup {Gone}] \cup {Nil}]
    BY <1>1 DEF MapTypeOK, CheckValue
  <2> QED BY <1>1, <2>1, <2>2 DEF MapTypeOK, CheckValue
<1>6. Alone(g)
  BY <1>1 DEF CheckValue, Alone, MapTypeOK
<1>7. OwnKept
  BY DEF CheckValue, OwnKept
<1>8. HandleOf(g)' /\ RacerOf(g)'
  BY <1>1, <1>2, <1>3, <1>4 DEF HandleOf, RacerOf, Holding
<1>9. pc[g] = "check" /\ dirty # Nil /\ Knows(g) /\ entry[dirty].del => pc'[g] = "done"
  BY <1>2, <1>3, HolderOf
<1>10. Finalized # Nil => ~Finalized.stale
  BY <1>2 DEF MapInv, Settled
<1> QED BY <1>2, <1>4, <1>5, <1>6, <1>7, <1>8, <1>9, <1>10, MoveKeeps

\* It returns the file.
LEMMA ReturnValueKeeps == ASSUME MapInv, NEW g \in Goroutines, ReturnValue(g) PROVE MapInv'
<1> USE Names
<1>1. MapTypeOK /\ HandleOf(g) /\ RacerOf(g)
  BY DEF MapInv, Handles, Racing
<1>2. pc[g] = "return" /\ handle[g] # Nil
  BY <1>1 DEF ReturnValue, HandleOf
<1>3. pc'[g] = "ready"
  BY <1>1 DEF ReturnValue, MapTypeOK
<1>4. UNCHANGED <<inBase, dirty, entry, cell, handle>>
  BY DEF ReturnValue
<1>5. MapTypeOK'
  <2>1. pc' \in [Goroutines -> {"start", "ready", "locked", "won", "lost", "reading", "read",
                              "check", "return", "done"}]
    BY <1>1 DEF MapTypeOK, ReturnValue
  <2>2. entry[Holder(g)].val \in Cells
    BY <1>1, <1>2, HolderOf DEF MapTypeOK
  <2>3. ValueOf(Holder(g)).text \in Texts
    BY <1>1, <2>2 DEF MapTypeOK, ValueOf, Value
  <2>4. out' \in [Goroutines -> [cell : Cells, text : Texts \cup {Gone}] \cup {Nil}]
    <3> DEFINE v == [cell |-> entry[Holder(g)].val,
                     text |-> IF entry[Holder(g)].del THEN Gone ELSE ValueOf(Holder(g)).text]
    <3>1. v \in [cell : Cells, text : Texts \cup {Gone}]
      BY <2>2, <2>3
    <3>2. out' = [out EXCEPT ![g] = v]
      BY DEF ReturnValue
    <3> HIDE DEF v
    <3> QED BY <1>1, <3>1, <3>2 DEF MapTypeOK
  <2> QED BY <1>1, <2>1, <2>4 DEF MapTypeOK, ReturnValue
<1>6. Alone(g)
  BY <1>1 DEF ReturnValue, Alone, MapTypeOK
<1>7. OwnKept
  BY DEF ReturnValue, OwnKept
<1>8. HandleOf(g)' /\ RacerOf(g)'
  BY <1>1, <1>2, <1>3, <1>4 DEF HandleOf, RacerOf, Holding
<1> QED BY <1>2, <1>3, <1>4, <1>5, <1>6, <1>7, <1>8, MoveKeeps

\* What Finish leaves.
LEMMA Finishing ==
  ASSUME MapTypeOK, NEW g \in Goroutines, Finish(g)
  PROVE  /\ \A h \in Goroutines \ {g} : pc'[h] = pc[h] /\ cur'[h] = cur[h] /\ locks'[h] = locks[h]
                                        /\ (own'[h] <=> own[h])
         /\ pc'[g] = IF op[g] \in {"retain", "release"} THEN "ready" ELSE "check"
         /\ op[g] = "retain" => own'[g]
         /\ op[g] = "release" => ~own'[g]
         /\ op[g] \notin {"retain", "release"} => (own'[g] <=> own[g])
         /\ locks' \in [Goroutines -> SUBSET Goroutines]
         /\ cur' \in [Goroutines -> Goroutines \cup {Nil}]
         /\ own' \in [Goroutines -> BOOLEAN]
         /\ pc' \in [Goroutines -> {"start", "ready", "locked", "won", "lost", "reading", "read",
                                   "check", "return", "done"}]
<1>1. \A h \in Goroutines \ {g} : pc'[h] = pc[h] /\ cur'[h] = cur[h] /\ locks'[h] = locks[h]
  BY DEF MapTypeOK, Finish
<1>2. \A h \in Goroutines \ {g} : own'[h] = own[h]
  BY DEF MapTypeOK, Finish
<1>3. pc'[g] = IF op[g] \in {"retain", "release"} THEN "ready" ELSE "check"
  BY DEF MapTypeOK, Finish
<1>4. own'[g] = IF op[g] = "retain" THEN TRUE ELSE IF op[g] = "release" THEN FALSE ELSE own[g]
  BY DEF MapTypeOK, Finish
<1>5. locks' \in [Goroutines -> SUBSET Goroutines] /\ cur' \in [Goroutines -> Goroutines \cup {Nil}]
  BY DEF MapTypeOK, Finish
<1>6. own' \in [Goroutines -> BOOLEAN]
  BY DEF MapTypeOK, Finish
<1>7. pc' \in [Goroutines -> {"start", "ready", "locked", "won", "lost", "reading", "read",
                            "check", "return", "done"}]
  BY DEF MapTypeOK, Finish
<1>8. op[g] = "release" => op[g] # "retain"
  OBVIOUS
<1>9. op[g] \notin {"retain", "release"} => op[g] # "retain" /\ op[g] # "release"
  OBVIOUS
<1>10. /\ op[g] = "retain" => own'[g]
       /\ op[g] = "release" => ~own'[g]
       /\ op[g] \notin {"retain", "release"} => (own'[g] <=> own[g])
  BY <1>4, <1>8, <1>9, Zenon
<1>11. \A h \in Goroutines \ {g} : own'[h] <=> own[h]
  BY <1>2, Zenon
<1> QED BY <1>1, <1>3, <1>5, <1>6, <1>7, <1>10, <1>11

\* An operation finds nothing to do.
LEMMA SkipKeeps == ASSUME MapInv, NEW g \in Goroutines, Skip(g) PROVE MapInv'
<1> USE Names
<1>1. MapTypeOK /\ HandleOf(g) /\ RacerOf(g) /\ Routed(g) /\ ~Wanted(g) /\ Finish(g)
  BY DEF MapInv, Handles, Racing, Skip
<1>2. UNCHANGED <<inBase, dirty, entry, cell, handle, op, buf, out, ops, disk>>
  BY DEF Skip
<1>3. MapTypeOK'
  BY <1>1, <1>2, Finishing DEF MapTypeOK
<1>4. Alone(g)
  BY <1>1, <1>2, Finishing DEF Alone
<1>5. pc[g] = "locked" /\ pc'[g] \in {"ready", "check"}
  BY <1>1, Finishing DEF Routed
<1>6. OwnKept
  <2>1. Finalized # Nil => (own'[g] <=> own[g])
    <3> SUFFICES ASSUME Finalized # Nil
                 PROVE  own'[g] <=> own[g]
      OBVIOUS
    <3>1. g \in ValueOf(cur[g]).marks <=> own[g]
      BY <1>1, SeenValue DEF MapInv, Marks
    <3>2. op[g] = "retain" => g \in ValueOf(cur[g]).marks
      BY <1>1 DEF Wanted
    <3>3. op[g] = "release" => g \notin ValueOf(cur[g]).marks
      BY <1>1 DEF Wanted
    <3>4. /\ op[g] = "retain" => own'[g]
          /\ op[g] = "release" => ~own'[g]
          /\ op[g] \notin {"retain", "release"} => (own'[g] <=> own[g])
      BY <1>1, Finishing
    <3> QED BY <3>1, <3>2, <3>3, <3>4
  <2>2. dirty = Nil /\ inBase => Finalized # Nil
    BY FinalizedOf
  <2>3. CASE cur[g] = dirty
    <3>1. dirty # Nil /\ entry[dirty].dirty /\ (handle[g] = g => g = dirty \/ entry[g].proxy = dirty)
      BY <1>1, <2>3, Routing
    <3>2. handle'[g] = g => entry[g].proxy # Nil \/ entry[g].dirty
      BY <1>2, <3>1
    <3> QED BY <1>1, <2>1, <3>1, <3>2, Finishing DEF OwnKept
  <2>4. CASE cur[g] # dirty
    <3>1. /\ handle[g] = g /\ entry[g] = NoEntry /\ cur[g] = g /\ inBase
      BY <1>1, <2>4, Routing
    <3>2. g \in cell[Base].marks <=> own[g]
      BY <3>1, Untouched DEF MapInv, Marks
    <3>3. ValueOf(cur[g]) = cell[Base]
      BY <3>1, Untouched DEF ValueOf
    <3>4. op[g] = "retain" => g \in ValueOf(cur[g]).marks
      BY <1>1 DEF Wanted
    <3>5. op[g] = "release" => g \notin ValueOf(cur[g]).marks
      BY <1>1 DEF Wanted
    <3>6. own'[g] <=> own[g]
      <4>1. /\ op[g] = "retain" => own'[g]
            /\ op[g] = "release" => ~own'[g]
            /\ op[g] \notin {"retain", "release"} => (own'[g] <=> own[g])
        BY <1>1, Finishing
      <4> QED BY <3>2, <3>3, <3>4, <3>5, <4>1
    <3> QED BY <1>1, <3>6, Finishing DEF OwnKept
  <2> QED BY <2>3, <2>4
<1>7. HandleOf(g)'
  BY <1>1, <1>2, <1>5 DEF HandleOf, Holding
<1>8. RacerOf(g)'
  BY <1>5 DEF RacerOf
<1>9. pc'[g] \in {"check", "return"} /\ Finalized # Nil => ~Finalized.stale
  <2> SUFFICES ASSUME pc'[g] = "check", Finalized # Nil
               PROVE  ~Finalized.stale
    BY <1>5
  <2>1. op[g] \in {"reload", "settle"}
    BY <1>1, Finishing DEF MapTypeOK, Ops
  <2>2. entry[cur[g]].del \/ ~ValueOf(cur[g]).stale
    BY <1>1, <2>1 DEF Wanted
  <2>3. ~entry[cur[g]].del
    BY <1>1, SeenValue
  <2> QED BY <1>1, <2>2, <2>3, SeenValue DEF MapInv, StaleOnlyOnce
<1> QED BY <1>2, <1>3, <1>4, <1>5, <1>6, <1>7, <1>8, <1>9, MoveKeeps

\* Nothing here depends on the disk.
LEMMA WriteFileKeeps == ASSUME MapInv, WriteFile PROVE MapInv'
<1>1. MapTypeOK'
  <2>1. MaxText \in Nat
    BY Names
  <2>2. disk' \in Texts \cup {Gone}
    BY <2>1 DEF MapInv, MapTypeOK, WriteFile, Texts, Gone
  <2> QED BY <2>2 DEF MapInv, MapTypeOK, WriteFile
<1>2. UNCHANGED <<inBase, dirty, entry, cell, handle, pc, op, cur, locks, own>>
  BY DEF WriteFile
<1>3. OwnHandles /\ OwnKept
  BY <1>2 DEF OwnHandles, OwnKept
<1>4. Handles' /\ Racing'
  BY <1>2 DEF MapInv, Handles, HandleOf, Racing, RacerOf
<1>5. Clean'
  BY <1>2 DEF MapInv, Clean, JustWon, DeletedClean
<1>6. Settled'
  BY <1>2, SameValue DEF MapInv, Settled
<1> QED BY <1>1, <1>2, <1>3, <1>4, <1>5, <1>6, MapQuietStep

-----------------------------------------------------------------------------
(* Steps that add the key, win the race for it, or change its value.            *)

\* What a step may do to the key.
Atomic == [Abstract!Next]_<<Finalized, Deleted>> /\ cell'[Base] = cell[Base]

\* A step that leaves the key alone is none of the abstract entry.
LEMMA QuietIsAtomic == ASSUME UNCHANGED <<inBase, dirty, entry, cell>> PROVE Atomic
BY SameValue DEF Atomic

\* A goroutine that finds no such key stores a fresh value.
LEMMA AddKeeps ==
  ASSUME MapInv, NEW g \in Goroutines, LoadOrStore(g), dirty = Nil, ~inBase
  PROVE  MapInv' /\ Atomic
<1> USE Names
<1>1. /\ pc[g] = "start"
      /\ dirty' = g
      /\ entry' = [entry EXCEPT ![g] = [NoEntry EXCEPT !.val = g, !.dirty = TRUE]]
      /\ cell' = [cell EXCEPT ![g] = Fresh]
      /\ handle' = [handle EXCEPT ![g] = g]
      /\ pc' = [pc EXCEPT ![g] = "ready"]
      /\ UNCHANGED <<inBase, op, cur, locks, buf, out, own, ops, disk>>
  BY DEF LoadOrStore
<1>2. MapTypeOK
  BY DEF MapInv
<1>3. /\ entry'[g].val = g /\ entry'[g].dirty /\ ~entry'[g].del /\ entry'[g].proxy = Nil
      /\ \A o \in Goroutines \ {g} : entry'[o] = NoEntry
  <2>1. \A o \in Goroutines : entry[o] = NoEntry
    BY DEF MapInv, Objects
  <2>2. entry'[g] = [val |-> g, dirty |-> TRUE, del |-> FALSE, proxy |-> Nil]
    BY <1>1, <1>2 DEF MapTypeOK, NoEntry
  <2>3. \A o \in Goroutines \ {g} : entry'[o] = entry[o]
    BY <1>1, <1>2 DEF MapTypeOK
  <2> QED BY <2>1, <2>2, <2>3
<1>4. cell'[g] = Fresh /\ cell'[Base] = cell[Base]
  BY <1>1, <1>2 DEF MapTypeOK
<1>5. Fresh \in Value /\ Fresh.marks = {}
  BY DEF Fresh, Value, Texts
<1>6. \A h \in Goroutines : handle[h] = Nil /\ pc[h] \in {"start", "done"} /\ ~own[h]
  <2> SUFFICES ASSUME NEW h \in Goroutines
               PROVE  handle[h] = Nil /\ pc[h] \in {"start", "done"} /\ ~own[h]
    OBVIOUS
  <2>1. handle[h] \in {Nil, h} /\ (handle[h] = h /\ h # dirty => inBase)
        /\ (pc[h] \notin {"start", "done"} => handle[h] # Nil)
    BY DEF MapInv, Handles, HandleOf
  <2>2. ~own[h]
    BY DEF MapInv, Marks
  <2> QED BY <2>1, <2>2
<1>7. /\ handle'[g] = g /\ pc'[g] = "ready"
      /\ \A h \in Goroutines \ {g} : handle'[h] = Nil /\ pc'[h] \in {"start", "done"}
  BY <1>1, <1>2, <1>6 DEF MapTypeOK
<1>8. Finalized = Nil /\ Finalized' = Fresh
  <2>1. Finalized = Nil
    BY FinalizedOf
  <2>2. Finalized' = Fresh
    BY <1>1, <1>3, <1>4 DEF Finalized, ValueOf
  <2> QED BY <2>1, <2>2
<1>9. MapTypeOK'
  <2>1. entry' \in [Goroutines -> [val : Cells, dirty : BOOLEAN, del : BOOLEAN,
                                 proxy : Goroutines \cup {Nil}]]
    BY <1>1, <1>2 DEF MapTypeOK, NoEntry
  <2>2. cell' \in [Cells -> Value]
    BY <1>1, <1>2, <1>5 DEF MapTypeOK
  <2>3. pc' \in [Goroutines -> {"start", "ready", "locked", "won", "lost", "reading", "read",
                              "check", "return", "done"}]
    BY <1>1, <1>2 DEF MapTypeOK
  <2>4. handle' \in [Goroutines -> Goroutines \cup {Nil}]
    BY <1>1, <1>2 DEF MapTypeOK
  <2>5. dirty' \in Goroutines \cup {Nil} /\ inBase' \in BOOLEAN
    BY <1>1, <1>2 DEF MapTypeOK
  <2> QED BY <1>1, <1>2, <2>1, <2>2, <2>3, <2>4, <2>5 DEF MapTypeOK
<1>10. Objects'
  BY <1>1, <1>3 DEF Objects
<1>11. Handles'
  <2>1. HandleOf(g)'
    BY <1>1, <1>7 DEF HandleOf, Holding
  <2>2. \A h \in Goroutines \ {g} : HandleOf(h)'
    BY <1>7 DEF HandleOf, Holding
  <2> QED BY <2>1, <2>2 DEF Handles
<1>12. Racing'
  BY <1>7 DEF Racing, RacerOf
<1>13. Clean'
  BY <1>1, <1>3 DEF Clean
<1>14. Marks'
  <2>1. \A h \in Goroutines : ~own'[h]
    BY <1>1, <1>6
  <2>2. \A h \in Goroutines : handle'[h] = h => entry'[h].dirty
    BY <1>3, <1>7
  <2>3. dirty' # Nil
    BY <1>1
  <2> QED BY <1>5, <1>8, <2>1, <2>2, <2>3 DEF Marks
<1>15. StaleOnlyOnce'
  BY <1>1 DEF StaleOnlyOnce
<1>16. Settled'
  BY <1>7 DEF Settled
<1>17. Atomic
  <2>0. Deleted = FALSE /\ Deleted' = FALSE
    BY <1>1, <1>3 DEF Deleted
  <2>1. Abstract!Add
    BY <1>5, <1>8, <2>0 DEF Abstract!Add, Abstract!Values, Value
  <2> QED BY <1>4, <2>1 DEF Atomic, Abstract!Next
<1> QED BY <1>9, <1>10, <1>11, <1>12, <1>13, <1>14, <1>15, <1>16, <1>17 DEF MapInv

\* LoadOrStore gets a handle or adds the key.
LEMMA LoadOrStoreKeeps ==
  ASSUME MapInv, NEW g \in Goroutines, LoadOrStore(g)
  PROVE  MapInv' /\ Atomic
<1>1. CASE dirty = Nil /\ ~inBase
  BY <1>1, AddKeeps
<1>2. CASE ~(dirty = Nil /\ ~inBase)
  <2>1. /\ pc[g] = "start"
        /\ UNCHANGED <<inBase, dirty, entry, cell, op, cur, locks, buf, out, own, ops, disk>>
    BY <1>2 DEF LoadOrStore, FromDirty, CleanEntry
  <2>2. \/ pc' = [pc EXCEPT ![g] = "done"] /\ handle' = handle
        \/ /\ pc' = [pc EXCEPT ![g] = "ready"]
           /\ \/ dirty # Nil /\ Free(dirty) /\ ~entry[dirty].del /\ handle' = [handle EXCEPT ![g] = dirty]
              \/ dirty = Nil /\ inBase /\ handle' = [handle EXCEPT ![g] = g]
    BY <1>2 DEF LoadOrStore, FromDirty, CleanEntry
  <2> QED BY <2>1, <2>2, FoundKeeps, QuietIsAtomic
<1> QED BY <1>1, <1>2

\* The first object to be changed is put into the dirty map; another one loses the race.
LEMMA StoreKeeps ==
  ASSUME MapInv, NEW g \in Goroutines, Store(g)
  PROVE  MapInv' /\ Atomic
<1> USE Names
<1>1. /\ Routed(g) /\ op[g] # "reload" /\ ~entry[cur[g]].dirty
      /\ UNCHANGED <<inBase, entry, cell, handle, op, cur, locks, buf, out, own, ops, disk>>
  BY DEF Store
<1>2. MapTypeOK /\ HandleOf(g)
  BY DEF MapInv, Handles
<1>3. cur[g] = g /\ handle[g] = g /\ g # dirty /\ entry[g] = NoEntry /\ inBase
  BY <1>1, Routing
<1>4. pc[g] = "locked" /\ cur[g] \in locks[g] /\ op[g] \in {"retain", "release", "settle"}
  BY <1>1, <1>2 DEF Routed, HandleOf, Holding, MapTypeOK, Ops
<1>5. CASE dirty # Nil
  <2>1. dirty' = dirty /\ pc' = [pc EXCEPT ![g] = "lost"]
    BY <1>5 DEF Store
  <2>2. pc'[g] = "lost" /\ \A h \in Goroutines \ {g} : pc'[h] = pc[h]
    BY <1>2, <2>1 DEF MapTypeOK
  <2>3. MapTypeOK'
    <3>1. pc' \in [Goroutines -> {"start", "ready", "locked", "won", "lost", "reading", "read",
                                "check", "return", "done"}]
      BY <1>2, <2>1 DEF MapTypeOK
    <3> QED BY <1>1, <1>2, <2>1, <3>1 DEF MapTypeOK
  <2>4. Alone(g)
    BY <1>1, <2>2 DEF Alone
  <2>5. OwnKept
    BY <1>1 DEF OwnKept
  <2>6. HandleOf(g)'
    BY <1>1, <1>2, <1>3, <1>4, <2>1, <2>2 DEF HandleOf, Holding
  <2>7. RacerOf(g)'
    BY <1>1, <1>3, <1>4, <1>5, <2>1, <2>2 DEF RacerOf
  <2>8. MapInv'
    BY <1>1, <1>4, <2>1, <2>2, <2>3, <2>4, <2>5, <2>6, <2>7, MoveKeeps
  <2> QED BY <1>1, <2>1, <2>8, QuietIsAtomic
<1>6. CASE dirty = Nil
  <2>1. dirty' = g /\ pc' = [pc EXCEPT ![g] = "won"]
    BY <1>3, <1>6 DEF Store
  <2>2. pc'[g] = "won" /\ \A h \in Goroutines \ {g} : pc'[h] = pc[h]
    BY <1>2, <2>1 DEF MapTypeOK
  <2>3. MapTypeOK'
    <3>1. pc' \in [Goroutines -> {"start", "ready", "locked", "won", "lost", "reading", "read",
                                "check", "return", "done"}]
      BY <1>2, <2>1 DEF MapTypeOK
    <3> QED BY <1>1, <1>2, <2>1, <3>1 DEF MapTypeOK
  <2>4. \A o \in Goroutines : entry[o] = NoEntry
    BY <1>6 DEF MapInv, Objects
  <2>5. Objects'
    BY <1>1, <1>3, <2>1, <2>4, Untouched DEF Objects
  <2>6. \A h \in Goroutines \ {g} : handle[h] \in {Nil, h} /\ pc[h] \notin {"won", "lost"}
    <3>1. \A h \in Goroutines : handle[h] \in {Nil, h}
      BY <1>6 DEF MapInv, Handles, HandleOf
    <3>2. \A h \in Goroutines : pc[h] \notin {"won", "lost"}
      BY <1>6 DEF MapInv, Racing, RacerOf
    <3> QED BY <3>1, <3>2
  <2>7. Handles'
    <3>1. HandleOf(g)'
      BY <1>1, <1>2, <1>3, <1>4, <2>1, <2>2 DEF HandleOf, Holding
    <3>2. \A h \in Goroutines \ {g} : HandleOf(h)'
      <4> SUFFICES ASSUME NEW h \in Goroutines \ {g}
                   PROVE  HandleOf(h)'
        OBVIOUS
      <4>1. HandleOf(h)
        BY DEF MapInv, Handles
      <4> QED BY <1>1, <1>3, <2>2, <2>6, <4>1 DEF HandleOf, Holding
    <3> QED BY <3>1, <3>2 DEF Handles
  <2>8. Racing'
    BY <1>1, <1>3, <1>4, <2>1, <2>2, <2>6 DEF Racing, RacerOf
  <2>9. Clean'
    <3>1. JustWon'
      BY <1>1, <2>1, <2>2, <2>4, <2>6 DEF JustWon
    <3>2. ~entry'[dirty'].del
      BY <1>1, <1>3, <2>1, Untouched
    <3> QED BY <1>1, <1>3, <3>1, <3>2 DEF Clean
  <2>10. Finalized' = Finalized
    BY <1>1, <1>3, <1>6, <2>1, Untouched DEF Finalized
  <2>11. Marks'
    <3>1. dirty' # Nil
      BY <2>1
    <3> QED BY <1>1, <2>10, <3>1 DEF MapInv, Marks
  <2>12. StaleOnlyOnce'
    BY <1>1, <2>10 DEF MapInv, StaleOnlyOnce
  <2>13. Settled'
    BY <2>2, <2>10 DEF MapInv, Settled
  <2>14. Atomic
    <3>1. Deleted = FALSE /\ Deleted' = FALSE
      BY <1>1, <1>3, <1>6, <2>1, Untouched DEF Deleted
    <3> QED BY <1>1, <2>10, <3>1 DEF Atomic
  <2> QED BY <2>3, <2>5, <2>7, <2>8, <2>9, <2>11, <2>12, <2>13, <2>14 DEF MapInv
<1> QED BY <1>5, <1>6

-----------------------------------------------------------------------------
(* A change of the value of the key, through whichever object it is made.       *)

\* The object in the dirty map takes the change; the object of a goroutine that lost the
\* race becomes its proxy.
Change(g) ==
  /\ pc[g] \in Holding /\ dirty # Nil /\ op[g] # "reload"
  /\ entry[dirty].dirty \/ entry[dirty].del \/ dirty = g
  /\ pc[dirty] = "won" => dirty = g
  /\ handle[g] = g => \/ entry'[g].proxy # Nil
                      \/ g = dirty /\ (entry'[dirty].dirty \/ Deletes(g))
  /\ \A o \in Goroutines \ {dirty} : entry'[o] = entry[o] \/ (o = g /\ entry'[o].proxy = dirty)
  /\ IF Deletes(g)
     THEN /\ entry'[dirty] = [entry[dirty] EXCEPT !.del = TRUE]
          /\ cell' = cell
     ELSE /\ entry'[dirty] = [entry[dirty] EXCEPT !.val = dirty, !.dirty = TRUE]
          /\ cell' = [cell EXCEPT ![dirty] = Applied(g, ValueOf(dirty))]
  /\ Finish(g)
  /\ UNCHANGED <<inBase, dirty, handle, op, buf, out, ops, disk>>

\* The function that a change applies: it touches the mark of its own goroutine only.
LEMMA AppliedOf ==
  ASSUME MapTypeOK, NEW g \in Goroutines, op[g] # "reload", ~Deletes(g), NEW v \in Value
  PROVE  /\ Applied(g, v) \in Value
         /\ \A h \in Goroutines \ {g} : h \in Applied(g, v).marks <=> h \in v.marks
         /\ op[g] = "retain" => /\ Applied(g, v) = [v EXCEPT !.marks = @ \cup {g}]
                                /\ g \in Applied(g, v).marks
         /\ op[g] = "release" => /\ Applied(g, v) = [v EXCEPT !.marks = @ \ {g}]
                                 /\ g \notin Applied(g, v).marks
         /\ op[g] = "settle" => /\ buf[g] \in Texts
                                /\ Applied(g, v) = [v EXCEPT !.text = buf[g], !.stale = FALSE]
                                /\ (g \in Applied(g, v).marks <=> g \in v.marks)
                                /\ ~Applied(g, v).stale
         /\ op[g] # "settle" => Applied(g, v).stale = v.stale
<1>1. op[g] \in {"retain", "release", "settle"}
  BY DEF MapTypeOK, Ops
<1>2. CASE op[g] = "retain"
  BY <1>2 DEF Applied, Value
<1>3. CASE op[g] = "release"
  BY <1>3 DEF Applied, Value
<1>4. CASE op[g] = "settle"
  <2>1. buf[g] \in Texts
    BY <1>4 DEF MapTypeOK, Deletes
  <2> QED BY <1>4, <2>1 DEF Applied, Value
<1> QED BY <1>1, <1>2, <1>3, <1>4

\* Deleted is a Boolean.
LEMMA DeletedSays == Deleted' \in BOOLEAN
BY Zenon DEF Deleted

\* What a change does to the value of the key, and that only a deletion deletes it.
LEMMA ChangedValue ==
  ASSUME MapInv, NEW g \in Goroutines, Change(g)
  PROVE  /\ Deletes(g) \/ entry[dirty].del => Finalized' = Nil /\ Deleted' = TRUE
         /\ ~Deletes(g) /\ ~entry[dirty].del =>
              /\ Finalized # Nil /\ Finalized \in Value
              /\ Finalized' = Applied(g, Finalized) /\ Deleted' = FALSE
         /\ cell' \in [Cells -> Value] /\ cell'[Base] = cell[Base]
<1> USE Names
<1>1. MapTypeOK /\ dirty \in Goroutines /\ dirty # Nil /\ dirty' = dirty /\ inBase' = inBase
  BY DEF MapInv, MapTypeOK, Change
<1>2. entry[dirty] \in [val : Cells, dirty : BOOLEAN, del : BOOLEAN, proxy : Goroutines \cup {Nil}]
  BY <1>1 DEF MapTypeOK
<1>3. CASE Deletes(g)
  <2>1. entry'[dirty].del /\ cell' = cell
    BY <1>2, <1>3 DEF Change
  <2>2. Deleted' = TRUE
    BY <1>1, <2>1, DeletedSays DEF Deleted
  <2> QED BY <1>1, <1>3, <2>1, <2>2 DEF Finalized, MapTypeOK
<1>4. CASE ~Deletes(g)
  <2>1. /\ entry'[dirty].val = dirty /\ entry'[dirty].dirty /\ (entry'[dirty].del <=> entry[dirty].del)
        /\ cell' = [cell EXCEPT ![dirty] = Applied(g, ValueOf(dirty))]
    BY <1>2, <1>4 DEF Change
  <2>2. Applied(g, ValueOf(dirty)) \in Value
    BY <1>1, <1>4, FinalizedOf, AppliedOf DEF Change
  <2>3. cell' \in [Cells -> Value] /\ cell'[Base] = cell[Base] /\ cell'[dirty] = Applied(g, ValueOf(dirty))
    BY <1>1, <2>1, <2>2 DEF MapTypeOK
  <2>4. Finalized' = IF entry[dirty].del THEN Nil ELSE Applied(g, ValueOf(dirty))
    BY <1>1, <2>1, <2>3 DEF Finalized, ValueOf
  <2>5. ~entry[dirty].del => Finalized = ValueOf(dirty) /\ Finalized \in Value
    BY <1>1, FinalizedOf
  <2>6. Deleted' <=> entry[dirty].del
    BY <1>1, <2>1 DEF Deleted
  <2> QED BY <1>4, <2>3, <2>4, <2>5, <2>6, DeletedSays
<1> QED BY <1>3, <1>4

\* The objects and their handles after a change.
LEMMA ChangedObjects ==
  ASSUME MapInv, NEW g \in Goroutines, Change(g)
  PROVE  Objects' /\ Handles' /\ Racing' /\ Clean'
<1> USE Names
<1>1. MapTypeOK /\ dirty \in Goroutines /\ dirty # Nil
  BY DEF MapInv, MapTypeOK, Change
<1>2. UNCHANGED <<inBase, dirty, handle, op, buf, out, ops, disk>>
  BY DEF Change
<1>3. \A o \in Goroutines \ {dirty} : entry'[o] = entry[o] \/ (o = g /\ entry'[o].proxy = dirty)
  BY DEF Change
<1>4. entry[dirty] \in [val : Cells, dirty : BOOLEAN, del : BOOLEAN, proxy : Goroutines \cup {Nil}]
  BY <1>1 DEF MapTypeOK
<1>5. /\ entry[dirty].proxy = Nil
      /\ entry[dirty].val = IF entry[dirty].dirty THEN dirty ELSE Base
      /\ \A o \in Goroutines \ {dirty} : entry[o] = NoEntry \/ entry[o].proxy = dirty
  BY <1>1 DEF MapInv, Objects
<1>6. /\ entry'[dirty].proxy = Nil
      /\ Deletes(g) => /\ entry'[dirty].del /\ (entry'[dirty].dirty <=> entry[dirty].dirty)
                       /\ entry'[dirty].val = entry[dirty].val
      /\ ~Deletes(g) => entry'[dirty].dirty /\ entry'[dirty].val = dirty
  <2>1. CASE Deletes(g)
    BY <1>4, <1>5, <2>1 DEF Change
  <2>2. CASE ~Deletes(g)
    <3>1. entry'[dirty] = [entry[dirty] EXCEPT !.val = dirty, !.dirty = TRUE]
      BY <2>2 DEF Change
    <3> QED BY <1>4, <1>5, <2>2, <3>1
  <2> QED BY <2>1, <2>2
<1>7. Finish(g)
  BY DEF Change
<1>8. /\ \A h \in Goroutines \ {g} : pc'[h] = pc[h] /\ cur'[h] = cur[h] /\ locks'[h] = locks[h]
      /\ pc'[g] = IF op[g] \in {"retain", "release"} THEN "ready" ELSE "check"
  BY <1>1, <1>7, Finishing
<1>9. Objects'
  <2>1. \A o \in Goroutines \ {dirty} : entry'[o] = NoEntry \/ entry'[o].proxy = dirty
    BY <1>3, <1>5
  <2>2. entry'[dirty].val = IF entry'[dirty].dirty THEN dirty ELSE Base
    BY <1>5, <1>6
  <2> QED BY <1>1, <1>2, <1>6, <2>1, <2>2 DEF Objects
<1>10. Handles'
  <2>1. HandleOf(g)'
    <3>1. HandleOf(g) /\ pc[g] \in Holding
      BY DEF MapInv, Handles, Change
    <3>2. handle[g] # Nil
      BY <3>1 DEF HandleOf, Holding
    <3> QED BY <1>2, <1>8, <3>1, <3>2 DEF HandleOf, Holding
  <2>2. ASSUME NEW h \in Goroutines \ {g} PROVE HandleOf(h)'
    <3>1. HandleOf(h)
      BY DEF MapInv, Handles
    <3>2. handle[h] # Nil => entry'[handle[h]].proxy = entry[handle[h]].proxy
      <4>1. handle[h] \in {Nil, h, dirty}
        BY <3>1 DEF HandleOf
      <4> QED BY <1>1, <1>3, <1>5, <1>6, <4>1
    <3>3. pc[h] \in Holding => handle[h] # Nil
      BY <3>1 DEF HandleOf, Holding
    <3> QED BY <1>2, <1>8, <3>1, <3>2, <3>3 DEF HandleOf
  <2> QED BY <2>1, <2>2 DEF Handles
<1>11. Racing'
  <2>1. RacerOf(g)'
    BY <1>8 DEF RacerOf
  <2>2. ASSUME NEW h \in Goroutines \ {g} PROVE RacerOf(h)'
    <3>1. RacerOf(h)
      BY DEF MapInv, Racing
    <3>2. pc[dirty] = "won" => dirty = g
      BY DEF Change
    <3>3. pc[h] \in {"won", "lost"} => h # dirty
      BY <1>1, <3>1, <3>2 DEF RacerOf
    <3>4. h # dirty => entry'[h] = entry[h]
      BY <1>3
    <3> QED BY <1>2, <1>8, <3>1, <3>3, <3>4 DEF RacerOf
  <2> QED BY <2>1, <2>2 DEF Racing
<1>12. Clean'
  <2> SUFFICES ASSUME ~entry'[dirty].dirty
               PROVE  inBase /\ entry'[dirty].del /\ DeletedClean'
    BY <1>2 DEF Clean
  <2>1. Deletes(g) /\ ~entry[dirty].dirty /\ entry'[dirty].del
    BY <1>6
  <2>2. pc'[g] = "check"
    BY <1>8, <2>1 DEF Deletes
  <2>3. inBase /\ (~entry[dirty].del => JustWon) /\ (entry[dirty].del => DeletedClean)
    BY <1>1, <2>1 DEF MapInv, Clean
  <2>4. ASSUME NEW h \in Goroutines \ {g}, handle[h] # Nil, dirty \in {handle[h], entry'[handle[h]].proxy}
        PROVE  pc'[h] \in {"check", "done"}
    <3>1. handle[h] \in {h, dirty}
      BY <2>4 DEF MapInv, Handles, HandleOf
    <3>2. entry'[handle[h]].proxy = entry[handle[h]].proxy
      BY <1>1, <1>3, <1>5, <1>6, <3>1
    <3>3. CASE entry[dirty].del
      BY <1>8, <2>3, <2>4, <3>2, <3>3 DEF DeletedClean
    <3>4. CASE ~entry[dirty].del
      <4>1. JustWon /\ pc[dirty] = "won" /\ dirty = g
        BY <2>3, <3>4 DEF JustWon, Change
      <4>2. handle[h] # dirty /\ entry[h] = NoEntry
        BY <4>1 DEF JustWon
      <4> QED BY <1>1, <2>4, <3>1, <3>2, <4>2, Untouched
    <3> QED BY <3>3, <3>4
  <2>5. DeletedClean'
    BY <1>2, <2>2, <2>4 DEF DeletedClean
  <2> QED BY <2>1, <2>3, <2>5
<1> QED BY <1>9, <1>10, <1>11, <1>12

\* The value after a change: the goroutine's mark is as it wanted it, a reload leaves nothing
\* stale, and nobody else's mark is touched.
LEMMA ChangedMarks ==
  ASSUME MapInv, NEW g \in Goroutines, Change(g)
  PROVE  Marks' /\ StaleOnlyOnce' /\ Settled'
<1> USE Names
<1>1. MapTypeOK /\ dirty \in Goroutines /\ dirty # Nil /\ op[g] # "reload" /\ Finish(g)
  BY DEF MapInv, MapTypeOK, Change
<1>2. UNCHANGED <<inBase, dirty, handle, op, buf, out, ops, disk>> /\ cell'[Base] = cell[Base]
  BY ChangedValue DEF Change
<1>3. /\ \A h \in Goroutines \ {g} : pc'[h] = pc[h] /\ (own'[h] <=> own[h])
      /\ pc'[g] = IF op[g] \in {"retain", "release"} THEN "ready" ELSE "check"
      /\ op[g] = "retain" => own'[g]
      /\ op[g] = "release" => ~own'[g]
      /\ op[g] \notin {"retain", "release"} => (own'[g] <=> own[g])
  BY <1>1, Finishing
<1>4. op[g] \in {"retain", "release", "settle"}
  BY <1>1 DEF MapTypeOK, Ops
<1>5. Finalized' # Nil => /\ ~Deletes(g) /\ Finalized # Nil /\ Finalized \in Value
                          /\ Finalized' = Applied(g, Finalized)
  BY ChangedValue
<1>6. Marks'
  <2>1. ASSUME Finalized' # Nil PROVE \A h \in Goroutines : h \in Finalized'.marks <=> own'[h]
    <3>1. \A h \in Goroutines : h \in Finalized.marks <=> own[h]
      BY <1>5, <2>1 DEF MapInv, Marks
    <3>2. /\ \A h \in Goroutines \ {g} : h \in Finalized'.marks <=> h \in Finalized.marks
          /\ op[g] = "retain" => g \in Finalized'.marks
          /\ op[g] = "release" => g \notin Finalized'.marks
          /\ op[g] = "settle" => (g \in Finalized'.marks <=> g \in Finalized.marks)
      BY <1>1, <1>5, <2>1, AppliedOf
    <3> QED BY <1>3, <1>4, <3>1, <3>2
  <2>2. ASSUME NEW h \in Goroutines, handle[h] = h, entry'[h].proxy = Nil, ~entry'[h].dirty
        PROVE  h \in cell[Base].marks <=> own'[h]
    <3>1. handle[h] = h /\ entry[h].proxy = Nil /\ ~entry[h].dirty
                             => (h \in cell[Base].marks <=> own[h])
      BY DEF MapInv, Marks
    <3>2. CASE h = dirty
      <4>1. Deletes(g) /\ ~entry[dirty].dirty /\ entry[dirty].proxy = Nil
        <5>1. entry[dirty] \in [val : Cells, dirty : BOOLEAN, del : BOOLEAN, proxy : Goroutines \cup {Nil}]
          BY <1>1 DEF MapTypeOK
        <5>2. Deletes(g)
          BY <2>2, <3>2, <5>1 DEF Change
        <5>3. entry'[dirty] = [entry[dirty] EXCEPT !.del = TRUE]
          BY <5>2 DEF Change
        <5> QED BY <2>2, <3>2, <5>1, <5>2, <5>3
      <4>2. own'[h] <=> own[h]
        BY <1>3, <4>1 DEF Deletes
      <4> QED BY <2>2, <3>1, <3>2, <4>1, <4>2
    <3>3. CASE h # dirty
      <4>1. h # g
        BY <2>2, <3>3 DEF Change
      <4>2. entry'[h] = entry[h]
        BY <3>3, <4>1 DEF Change
      <4> QED BY <1>3, <2>2, <3>1, <4>1, <4>2
    <3> QED BY <3>2, <3>3
  <2> QED BY <1>1, <1>2, <2>1, <2>2 DEF Marks
<1>7. Finalized' # Nil => /\ Finalized'.stale => Finalized.stale
                          /\ op[g] = "settle" => ~Finalized'.stale
  <2> SUFFICES ASSUME Finalized' # Nil
               PROVE  (Finalized'.stale => Finalized.stale) /\ (op[g] = "settle" => ~Finalized'.stale)
    OBVIOUS
  <2>1. /\ op[g] = "settle" => ~Applied(g, Finalized).stale
        /\ op[g] # "settle" => Applied(g, Finalized).stale = Finalized.stale
    BY <1>1, <1>5, AppliedOf
  <2>2. Finalized' = Applied(g, Finalized)
    BY <1>5
  <2> QED BY <2>1, <2>2
<1>8. StaleOnlyOnce'
  BY <1>2, <1>5, <1>7 DEF MapInv, StaleOnlyOnce
<1>9. Settled'
  <2>1. ASSUME NEW h \in Goroutines, pc'[h] \in {"check", "return"}, Finalized' # Nil
        PROVE  ~Finalized'.stale
    <3>1. CASE h = g
      BY <1>3, <1>4, <1>7, <2>1, <3>1
    <3>2. CASE h # g
      BY <1>3, <1>5, <1>7, <2>1, <3>2 DEF MapInv, Settled
    <3> QED BY <3>1, <3>2
  <2> QED BY <2>1 DEF Settled
<1> QED BY <1>6, <1>8, <1>9

\* A change is one step of the abstract entry, or none if the key has been deleted.
LEMMA ChangeIsAtomic ==
  ASSUME MapInv, NEW g \in Goroutines, Change(g)
  PROVE  Atomic
<1> USE Names
<1>1. MapTypeOK /\ dirty # Nil /\ op[g] # "reload" /\ cell'[Base] = cell[Base]
  BY ChangedValue DEF MapInv, Change
<1>2. CASE entry[dirty].del
  <2>1. Finalized = Nil /\ Finalized' = Nil /\ Deleted = TRUE /\ Deleted' = TRUE
    BY <1>1, <1>2, FinalizedOf, ChangedValue DEF Deleted
  <2> QED BY <1>1, <2>1 DEF Atomic
<1>3. CASE ~entry[dirty].del /\ Deletes(g)
  <2>1. Finalized # Nil /\ Finalized' = Nil /\ Deleted' = TRUE
    BY <1>1, <1>3, FinalizedOf, ChangedValue
  <2>2. Abstract!Remove
    BY <2>1 DEF Abstract!Remove
  <2> QED BY <1>1, <2>2 DEF Atomic, Abstract!Next
<1>4. CASE ~entry[dirty].del /\ ~Deletes(g)
  <2>1. /\ Finalized # Nil /\ Finalized \in Value /\ Finalized' = Applied(g, Finalized)
        /\ Deleted = FALSE /\ Deleted' = FALSE
    BY <1>4, ChangedValue DEF Deleted
  <2>2. op[g] \in {"retain", "release", "settle"}
    BY <1>1 DEF MapTypeOK, Ops
  <2>3. CASE op[g] = "retain"
    BY <1>1, <1>4, <2>1, <2>3, AppliedOf DEF Atomic, Abstract!Next, Abstract!Retain
  <2>4. CASE op[g] = "release"
    BY <1>1, <1>4, <2>1, <2>4, AppliedOf DEF Atomic, Abstract!Next, Abstract!Release
  <2>5. CASE op[g] = "settle"
    BY <1>1, <1>4, <2>1, <2>5, AppliedOf DEF Atomic, Abstract!Next, Abstract!Reload
  <2> QED BY <2>2, <2>3, <2>4, <2>5
<1> QED BY <1>2, <1>3, <1>4

\* A change keeps the invariant and is one atomic change of the entry.
LEMMA ChangeKeeps ==
  ASSUME MapInv, NEW g \in Goroutines, Change(g),
         entry' \in [Goroutines -> [val : Cells, dirty : BOOLEAN, del : BOOLEAN,
                                    proxy : Goroutines \cup {Nil}]]
  PROVE  MapInv' /\ Atomic
<1>1. MapTypeOK /\ Finish(g) /\ UNCHANGED <<inBase, dirty, handle, op, buf, out, ops, disk>>
  BY DEF MapInv, Change
<1>2. cell' \in [Cells -> Value]
  BY ChangedValue
<1>3. MapTypeOK'
  BY <1>1, <1>2, Finishing DEF MapTypeOK
<1> QED BY <1>3, ChangedObjects, ChangedMarks, ChangeIsAtomic DEF MapInv

-----------------------------------------------------------------------------
(* The three ways to make a change.                                             *)

\* The records that objects are.
LEMMA ObjectOf ==
  ASSUME MapInv, NEW o \in Goroutines
  PROVE  entry[o] \in [val : Cells, dirty : BOOLEAN, del : BOOLEAN, proxy : Goroutines \cup {Nil}]
BY DEF MapInv, MapTypeOK

\* On the dirty object itself.
LEMMA InPlaceKeeps ==
  ASSUME MapInv, NEW g \in Goroutines, InPlace(g)
  PROVE  MapInv' /\ Atomic
<1> USE Names
<1>1. /\ Routed(g) /\ op[g] # "reload" /\ entry[cur[g]].dirty /\ Finish(g)
      /\ UNCHANGED <<inBase, dirty, handle, op, buf, out, ops, disk>>
  BY DEF InPlace
<1>2. MapTypeOK
  BY DEF MapInv
<1>3. dirty # Nil /\ cur[g] = dirty /\ entry[dirty].dirty /\ dirty \in Goroutines
      /\ (handle[g] = g => g = dirty \/ entry[g].proxy = dirty)
  BY <1>1, <1>2, Routing, Untouched DEF MapTypeOK
<1>4. entry[dirty].val = dirty
  BY <1>3 DEF MapInv, Objects
<1>5. pc[dirty] # "won"
  BY <1>3, Untouched DEF MapInv, Racing, RacerOf
<1>6. CASE Deletes(g)
  <2>1. entry' = [entry EXCEPT ![dirty] = [entry[dirty] EXCEPT !.del = TRUE]] /\ cell' = cell
    BY <1>3, <1>6 DEF InPlace
  <2>2. [entry[dirty] EXCEPT !.del = TRUE]
          \in [val : Cells, dirty : BOOLEAN, del : BOOLEAN, proxy : Goroutines \cup {Nil}]
    BY <1>3, ObjectOf
  <2>3. /\ entry'[dirty] = [entry[dirty] EXCEPT !.del = TRUE]
        /\ \A o \in Goroutines \ {dirty} : entry'[o] = entry[o]
        /\ entry' \in [Goroutines -> [val : Cells, dirty : BOOLEAN, del : BOOLEAN,
                                      proxy : Goroutines \cup {Nil}]]
    BY <1>2, <1>3, <2>1, <2>2 DEF MapTypeOK
  <2>4. handle[g] = g => entry'[g].proxy # Nil \/ g = dirty
    BY <1>3, <2>3
  <2>5. Change(g)
    BY <1>1, <1>3, <1>5, <1>6, <2>1, <2>3, <2>4 DEF Change, Routed, Holding
  <2> QED BY <2>3, <2>5, ChangeKeeps
<1>7. CASE ~Deletes(g)
  <2>1. entry' = entry /\ cell' = [cell EXCEPT ![dirty] = Applied(g, ValueOf(dirty))]
    BY <1>3, <1>4, <1>7 DEF InPlace, ValueOf
  <2>2. entry[dirty] = [entry[dirty] EXCEPT !.val = dirty, !.dirty = TRUE]
    <3>1. entry[dirty].dirty = TRUE
      BY <1>3, ObjectOf
    <3> QED BY <1>3, <1>4, <3>1, ObjectOf
  <2>3. Change(g)
    BY <1>1, <1>3, <1>5, <1>7, <2>1, <2>2 DEF Change, Routed, Holding
  <2> QED BY <1>2, <2>1, <2>3, ChangeKeeps DEF MapTypeOK
<1> QED BY <1>6, <1>7

\* On the object that has just been put into the dirty map.
LEMMA WonKeeps ==
  ASSUME MapInv, NEW g \in Goroutines, Won(g)
  PROVE  MapInv' /\ Atomic
<1> USE Names
<1>1. /\ pc[g] = "won" /\ Finish(g)
      /\ UNCHANGED <<inBase, dirty, handle, op, buf, out, ops, disk>>
  BY DEF Won
<1>2. MapTypeOK
  BY DEF MapInv
<1>3. cur[g] = g /\ handle[g] = g /\ entry[g] = NoEntry /\ dirty = g /\ op[g] # "reload"
  BY <1>1 DEF MapInv, Racing, RacerOf
<1>4. Cloned(g) = g
  BY <1>3, Untouched DEF Cloned
<1>5. CASE Deletes(g)
  <2>1. entry' = [entry EXCEPT ![g] = [entry[g] EXCEPT !.del = TRUE]] /\ cell' = cell
    BY <1>3, <1>5 DEF Won
  <2>2. [entry[g] EXCEPT !.del = TRUE]
          \in [val : Cells, dirty : BOOLEAN, del : BOOLEAN, proxy : Goroutines \cup {Nil}]
    BY ObjectOf
  <2>3. /\ entry'[g] = [entry[g] EXCEPT !.del = TRUE]
        /\ \A o \in Goroutines \ {g} : entry'[o] = entry[o]
        /\ entry' \in [Goroutines -> [val : Cells, dirty : BOOLEAN, del : BOOLEAN,
                                      proxy : Goroutines \cup {Nil}]]
    BY <1>2, <2>1, <2>2 DEF MapTypeOK
  <2>4. Change(g)
    BY <1>1, <1>3, <1>5, <2>1, <2>3 DEF Change, Holding
  <2> QED BY <2>3, <2>4, ChangeKeeps
<1>6. CASE ~Deletes(g)
  <2>1. /\ entry' = [entry EXCEPT ![g].val = Cloned(g), ![g].dirty = TRUE]
        /\ cell' = [cell EXCEPT ![g] = Applied(g, ValueOf(g))]
    BY <1>3, <1>4, <1>6 DEF Won
  <2>2. [entry[g] EXCEPT !.val = g, !.dirty = TRUE]
          \in [val : Cells, dirty : BOOLEAN, del : BOOLEAN, proxy : Goroutines \cup {Nil}]
    BY ObjectOf
  <2>3. /\ entry'[g] = [entry[g] EXCEPT !.val = g, !.dirty = TRUE]
        /\ \A o \in Goroutines \ {g} : entry'[o] = entry[o]
        /\ entry' \in [Goroutines -> [val : Cells, dirty : BOOLEAN, del : BOOLEAN,
                                      proxy : Goroutines \cup {Nil}]]
    BY <1>2, <1>4, <2>1, <2>2 DEF MapTypeOK
  <2>4. entry'[g].dirty
    BY <2>3, ObjectOf
  <2>5. Change(g)
    BY <1>1, <1>3, <1>6, <2>1, <2>3, <2>4 DEF Change, Holding
  <2> QED BY <2>3, <2>5, ChangeKeeps
<1> QED BY <1>5, <1>6

\* On the winner, by a goroutine that lost the race.
LEMMA LostKeeps ==
  ASSUME MapInv, NEW g \in Goroutines, Lost(g)
  PROVE  MapInv' /\ Atomic
<1> USE Names
<1>1. /\ pc[g] = "lost" /\ Free(dirty) /\ Finish(g)
      /\ UNCHANGED <<inBase, dirty, handle, op, buf, out, ops, disk>>
  BY DEF Lost
<1>2. MapTypeOK
  BY DEF MapInv
<1>3. cur[g] = g /\ handle[g] = g /\ dirty # Nil /\ dirty # g /\ dirty \in Goroutines /\ op[g] # "reload"
  BY <1>1, <1>2 DEF MapInv, Racing, RacerOf, MapTypeOK
<1>4. pc[dirty] # "won" /\ (entry[dirty].dirty \/ entry[dirty].del)
  BY <1>1, <1>3, NobodyAbout
<1>5. Cloned(dirty) = dirty
  BY <1>3 DEF Cloned, MapInv, Objects
<1>6. CASE Deletes(g)
  <2> DEFINE e == Proxy(dirty, entry[dirty].val, entry[dirty].dirty, TRUE)
             w == [entry[dirty] EXCEPT !.del = TRUE]
  <2>1. entry' = [entry EXCEPT ![dirty] = w, ![g] = e] /\ cell' = cell
    BY <1>3, <1>6 DEF Lost
  <2>2. w \in [val : Cells, dirty : BOOLEAN, del : BOOLEAN, proxy : Goroutines \cup {Nil}]
    BY <1>3, ObjectOf
  <2>3. e \in [val : Cells, dirty : BOOLEAN, del : BOOLEAN, proxy : Goroutines \cup {Nil}] /\ e.proxy = dirty
    <3>1. entry[dirty] \in [val : Cells, dirty : BOOLEAN, del : BOOLEAN, proxy : Goroutines \cup {Nil}]
      BY <1>3, ObjectOf
    <3> QED BY <1>3, <3>1 DEF Proxy
  <2> HIDE DEF e, w
  <2>4. /\ entry'[dirty] = w /\ entry'[g] = e
        /\ \A o \in Goroutines \ {dirty, g} : entry'[o] = entry[o]
        /\ entry' \in [Goroutines -> [val : Cells, dirty : BOOLEAN, del : BOOLEAN,
                                      proxy : Goroutines \cup {Nil}]]
    BY <1>2, <1>3, <2>1, <2>2, <2>3 DEF MapTypeOK
  <2>5. entry'[g].proxy # Nil /\ \A o \in Goroutines \ {dirty} : entry'[o] = entry[o] \/ (o = g /\ entry'[o].proxy = dirty)
    BY <1>3, <2>3, <2>4
  <2>6. entry'[dirty] = [entry[dirty] EXCEPT !.del = TRUE]
    BY <2>4 DEF w
  <2>7. Change(g)
    BY <1>1, <1>3, <1>4, <1>6, <2>1, <2>5, <2>6 DEF Change, Holding
  <2> QED BY <2>4, <2>7, ChangeKeeps
<1>7. CASE ~Deletes(g)
  <2> DEFINE e == Proxy(dirty, dirty, TRUE, entry[dirty].del)
             w == [entry[dirty] EXCEPT !.val = dirty, !.dirty = TRUE]
  <2>1. /\ entry' = [entry EXCEPT ![dirty].val = dirty, ![dirty].dirty = TRUE, ![g] = e]
        /\ cell' = [cell EXCEPT ![dirty] = Applied(g, ValueOf(dirty))]
    BY <1>3, <1>5, <1>7 DEF Lost, Latest
  <2>2. w \in [val : Cells, dirty : BOOLEAN, del : BOOLEAN, proxy : Goroutines \cup {Nil}]
    BY <1>3, ObjectOf
  <2>3. e \in [val : Cells, dirty : BOOLEAN, del : BOOLEAN, proxy : Goroutines \cup {Nil}] /\ e.proxy = dirty
    <3>1. entry[dirty] \in [val : Cells, dirty : BOOLEAN, del : BOOLEAN, proxy : Goroutines \cup {Nil}]
      BY <1>3, ObjectOf
    <3> QED BY <1>3, <3>1 DEF Proxy
  <2> HIDE DEF e
  <2>4. /\ entry'[dirty] = w /\ entry'[g] = e
        /\ \A o \in Goroutines \ {dirty, g} : entry'[o] = entry[o]
    BY <1>2, <1>3, <2>1 DEF MapTypeOK
  <2> HIDE DEF w
  <2>5. entry' \in [Goroutines -> [val : Cells, dirty : BOOLEAN, del : BOOLEAN,
                                      proxy : Goroutines \cup {Nil}]]
    <3>1. entry' = [o \in Goroutines |-> entry'[o]]
      BY <1>2, <2>1 DEF MapTypeOK
    <3>2. \A o \in Goroutines : entry'[o] \in [val : Cells, dirty : BOOLEAN, del : BOOLEAN,
                                      proxy : Goroutines \cup {Nil}]
      BY <2>2, <2>3, <2>4, ObjectOf
    <3> QED BY <3>1, <3>2
  <2>6. entry'[g].proxy # Nil /\ \A o \in Goroutines \ {dirty} : entry'[o] = entry[o] \/ (o = g /\ entry'[o].proxy = dirty)
    BY <1>3, <2>3, <2>4
  <2>7. entry'[dirty] = [entry[dirty] EXCEPT !.val = dirty, !.dirty = TRUE]
    BY <2>4 DEF w
  <2>8. Change(g)
    BY <1>1, <1>3, <1>4, <1>7, <2>1, <2>6, <2>7 DEF Change, Holding
  <2> QED BY <2>5, <2>8, ChangeKeeps
<1> QED BY <1>6, <1>7

-----------------------------------------------------------------------------
(* The theorems.                                                                *)

\* The invariant holds at the start.
LEMMA InitKeeps == MapInit => MapInv /\ Abstract!Init
<1> SUFFICES ASSUME MapInit
             PROVE  MapInv /\ Abstract!Init
  OBVIOUS
<1> USE Names
<1>1. /\ inBase \in BOOLEAN /\ dirty = Nil
      /\ \A g \in Goroutines : /\ entry[g] = NoEntry /\ handle[g] = Nil /\ pc[g] = "start"
  BY DEF MapInit
<1>2. PICK s \in BOOLEAN, m \in SUBSET Goroutines :
        /\ cell = [c \in Cells |-> [Fresh EXCEPT !.stale = s, !.marks = m]]
        /\ own = [g \in Goroutines |-> inBase /\ g \in m]
  BY DEF MapInit
<1>3. cell \in [Cells -> Value] /\ cell[Base].marks = m
  <2>1. Fresh \in Value
    BY DEF Fresh, Value, Texts
  <2>2. [Fresh EXCEPT !.stale = s, !.marks = m] \in Value /\ [Fresh EXCEPT !.stale = s, !.marks = m].marks = m
    BY <2>1 DEF Value
  <2> QED BY <1>2, <2>2
<1>4. own \in [Goroutines -> BOOLEAN] /\ \A g \in Goroutines : own[g] <=> (inBase /\ g \in m)
  <2>1. \A g \in Goroutines : own[g] = (inBase /\ g \in m)
    BY <1>2
  <2>2. own = [g \in Goroutines |-> (inBase /\ g \in m)]
    BY <1>2
  <2>3. \A g \in Goroutines : (inBase /\ g \in m) \in BOOLEAN
    OBVIOUS
  <2> QED BY <2>1, <2>2, <2>3, Zenon
<1>5. MapTypeOK
  <2>1. entry \in [Goroutines -> [val : Cells, dirty : BOOLEAN, del : BOOLEAN,
                                proxy : Goroutines \cup {Nil}]]
    BY DEF MapInit, NoEntry
  <2>2. op \in [Goroutines -> Ops] /\ ops \in [Goroutines -> 0..MaxOps] /\ disk \in Texts \cup {Gone}
    BY DEF MapInit, Ops, Texts
  <2>3. buf \in [Goroutines -> Texts \cup {Gone}]
    BY DEF MapInit
  <2>4. /\ handle \in [Goroutines -> Goroutines \cup {Nil}]
        /\ cur \in [Goroutines -> Goroutines \cup {Nil}]
        /\ locks \in [Goroutines -> SUBSET Goroutines]
        /\ out \in [Goroutines -> [cell : Cells, text : Texts \cup {Gone}] \cup {Nil}]
        /\ pc \in [Goroutines -> {"start", "ready", "locked", "won", "lost", "reading", "read",
                                "check", "return", "done"}]
    BY DEF MapInit
  <2> QED BY <1>1, <1>3, <1>4, <2>1, <2>2, <2>3, <2>4 DEF MapTypeOK
<1>6. Finalized = IF inBase THEN cell[Base] ELSE Nil
  BY <1>1 DEF Finalized
<1>7. Objects /\ Handles /\ Racing /\ Clean /\ Settled
  BY <1>1 DEF Objects, Handles, HandleOf, Holding, Racing, RacerOf, Clean, Settled
<1>8. Marks
  BY <1>1, <1>3, <1>4, <1>6 DEF Marks
<1>9. StaleOnlyOnce
  BY <1>6 DEF StaleOnlyOnce
<1>10. Abstract!Init
  <2>1. Deleted = FALSE
    BY <1>1 DEF Deleted
  <2> QED BY <1>3, <1>6, <2>1 DEF Abstract!Init, Abstract!Values, Value
<1> QED BY <1>5, <1>7, <1>8, <1>9, <1>10 DEF MapInv

\* Every step keeps the invariant, and is a step of the abstract entry or none, and leaves
\* the base alone.
LEMMA StepKeeps == MapInv /\ [MapNext]_mapVars => MapInv' /\ Atomic
<1> SUFFICES ASSUME MapInv, [MapNext]_mapVars
             PROVE  MapInv' /\ Atomic
  OBVIOUS
<1>1. ASSUME NEW g \in Goroutines, Load(g) PROVE MapInv' /\ Atomic
  <2>1. UNCHANGED <<inBase, dirty, entry, cell>>
    BY <1>1 DEF Load, FromDirty, CleanEntry
  <2> QED BY <1>1, <2>1, LoadKeeps, QuietIsAtomic
<1>2. ASSUME NEW g \in Goroutines, LoadOrStore(g) PROVE MapInv' /\ Atomic
  BY <1>2, LoadOrStoreKeeps
<1>3. ASSUME NEW g \in Goroutines, LockHandle(g) PROVE MapInv' /\ Atomic
  BY <1>3, BeginKeeps, QuietIsAtomic DEF LockHandle
<1>4. ASSUME NEW g \in Goroutines, Relock(g) PROVE MapInv' /\ Atomic
  BY <1>4, RelockKeeps, QuietIsAtomic DEF Relock
<1>5. ASSUME NEW g \in Goroutines, Route(g) PROVE MapInv' /\ Atomic
  BY <1>5, RouteKeeps, QuietIsAtomic DEF Route
<1>6. ASSUME NEW g \in Goroutines, Skip(g) PROVE MapInv' /\ Atomic
  BY <1>6, SkipKeeps, QuietIsAtomic DEF Skip
<1>7. ASSUME NEW g \in Goroutines, Unlock(g) PROVE MapInv' /\ Atomic
  BY <1>7, UnlockKeeps, QuietIsAtomic DEF Unlock
<1>8. ASSUME NEW g \in Goroutines, ReadFile(g) PROVE MapInv' /\ Atomic
  BY <1>8, ReadFileKeeps, QuietIsAtomic DEF ReadFile
<1>9. ASSUME NEW g \in Goroutines, InPlace(g) PROVE MapInv' /\ Atomic
  BY <1>9, InPlaceKeeps
<1>10. ASSUME NEW g \in Goroutines, Store(g) PROVE MapInv' /\ Atomic
  BY <1>10, StoreKeeps
<1>11. ASSUME NEW g \in Goroutines, Won(g) PROVE MapInv' /\ Atomic
  BY <1>11, WonKeeps
<1>12. ASSUME NEW g \in Goroutines, Lost(g) PROVE MapInv' /\ Atomic
  BY <1>12, LostKeeps
<1>13. ASSUME NEW g \in Goroutines, CheckValue(g) PROVE MapInv' /\ Atomic
  BY <1>13, CheckValueKeeps, QuietIsAtomic DEF CheckValue
<1>14. ASSUME NEW g \in Goroutines, ReturnValue(g) PROVE MapInv' /\ Atomic
  BY <1>14, ReturnValueKeeps, QuietIsAtomic DEF ReturnValue
<1>15. ASSUME NEW g \in Goroutines, Leave(g) PROVE MapInv' /\ Atomic
  BY <1>15, LeaveKeeps, QuietIsAtomic DEF Leave
<1>16. CASE WriteFile
  BY <1>16, WriteFileKeeps, QuietIsAtomic DEF WriteFile
<1>17. CASE UNCHANGED mapVars
  <2>1. UNCHANGED <<inBase, dirty, entry, cell, handle, pc, op, cur, locks, buf, out, own, ops, disk>>
    BY <1>17 DEF mapVars
  <2>2. MapTypeOK' /\ OwnHandles /\ OwnKept
    BY <2>1 DEF MapInv, MapTypeOK, OwnHandles, OwnKept
  <2>3. Handles' /\ Racing'
    BY <2>1 DEF MapInv, Handles, HandleOf, Racing, RacerOf
  <2>4. Clean'
    BY <2>1 DEF MapInv, Clean, JustWon, DeletedClean
  <2>5. Settled'
    BY <2>1, SameValue DEF MapInv, Settled
  <2> QED BY <2>1, <2>2, <2>3, <2>4, <2>5, MapQuietStep, QuietIsAtomic
<1> QED BY <1>1, <1>2, <1>3, <1>4, <1>5, <1>6, <1>7, <1>8, <1>9, <1>10, <1>11, <1>12, <1>13, <1>14,
           <1>15, <1>16, <1>17 DEF MapNext, Get, Locking, Changing, Reading

\* The inductive invariant of the map.
LEMMA MapInvariant == MapSpec => []MapInv
<1>1. MapInit => MapInv
  BY InitKeeps
<1>2. MapInv /\ [MapNext]_mapVars => MapInv'
  BY StepKeeps
<1> QED BY <1>1, <1>2, PTL DEF MapSpec

\* However the goroutines of a build interleave, every variable keeps its type (syncmap.go).
THEOREM MapTypeCorrect == MapSpec => []MapTypeOK
<1>1. MapInv => MapTypeOK
  BY DEF MapInv
<1> QED BY <1>1, MapInvariant, PTL

\* Between operations a goroutine finds its mark as its own last operation left it, in the
\* value that SyncMap.finalize yields: no change made through an object that lost the race is
\* lost, and no other goroutine's change undoes it (changeLocked, deleteLocked).
THEOREM MarksAlwaysKept == MapSpec => []MarksKept
<1>1. MapInv => MarksKept
  <2>1. ASSUME MapInv, NEW g \in Goroutines, Finalized # Nil PROVE (g \in Finalized.marks) = own[g]
    <3>1. g \in Finalized.marks <=> own[g]
      BY <2>1 DEF MapInv, Marks
    <3>2. own[g] = TRUE \/ own[g] = FALSE
      BY <2>1 DEF MapInv, MapTypeOK
    <3>3. CASE own[g] = TRUE
      BY <3>1, <3>3
    <3>4. CASE own[g] = FALSE
      <4>1. ~(g \in Finalized.marks)
        BY <3>1, <3>4
      <4>2. (g \in Finalized.marks) = FALSE
        BY <4>1
      <4> QED BY <3>4, <4>2
    <3> QED BY <3>2, <3>3, <3>4
  <2> QED BY <2>1 DEF MarksKept
<1> QED BY <1>1, MapInvariant, PTL

\* When a goroutine has settled what it read from disk, the value that SyncMap.finalize yields
\* is not stale, through whichever object it was done (reloadEntryIfNeeded).
THEOREM ReloadsSettle == MapSpec => []Settled
<1>1. MapInv => Settled
  BY DEF MapInv
<1> QED BY <1>1, MapInvariant, PTL

\* All objects of a key are one value that changes atomically and that nothing brings back once
\* it is deleted (LoadOrStore gives no handle of a deleted key), and the base map, which belongs
\* to the snapshot the build started from, keeps its value (copy on write in changeLocked).
THEOREM OneValueOfAll == MapSpec => OneValue
<1>1. MapInit => Abstract!Init
  BY InitKeeps
<1>2. MapInv /\ [MapNext]_mapVars => [Abstract!Next]_<<Finalized, Deleted>>
  BY StepKeeps DEF Atomic
<1>3. MapInv /\ [MapNext]_mapVars => [cell'[Base] = cell[Base]]_mapVars
  BY StepKeeps DEF Atomic
<1>4. MapSpec => Abstract!Spec
  BY <1>1, <1>2, MapInvariant, PTL DEF MapSpec, Abstract!Spec, Abstract!vars
<1>5. MapSpec => BaseUntouched
  BY <1>3, MapInvariant, PTL DEF MapSpec, BaseUntouched
<1> QED BY <1>4, <1>5 DEF OneValue
=============================================================================
