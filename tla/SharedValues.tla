----------------------------- MODULE SharedValues -----------------------------
(***************************************************************************)
(* What a reference-counted cache promises (the comments of                *)
(* tsc/internal/project/refcountcache.go): everybody who holds a key       *)
(* at the same time holds the same value, and a key that nobody holds may  *)
(* be given a new value.  How values are produced, shared and dropped is   *)
(* left to the implementation, RefCountCache.                              *)
(***************************************************************************)
CONSTANTS
  Users,   \* who holds references
  Keys,    \* the identities of the cache
  Values,  \* the values that are produced for keys
  None     \* not a value

VARIABLES
  holders,  \* the users that hold a key
  shared    \* the value of a key that is held
vars == <<holders, shared>>

Init ==
  /\ holders = [k \in Keys |-> {}]
  /\ shared = [k \in Keys |-> None]

\* A user gets hold of a key: the value the other holders have, or any if there are none.
Hold(u, k) ==
  /\ u \notin holders[k]
  /\ holders' = [holders EXCEPT ![k] = @ \cup {u}]
  /\ \E v \in Values :
       /\ holders[k] # {} => v = shared[k]
       /\ shared' = [shared EXCEPT ![k] = v]

\* A user gives up its hold of a key.
Drop(u, k) ==
  /\ u \in holders[k]
  /\ holders' = [holders EXCEPT ![k] = @ \ {u}]
  /\ shared' = [shared EXCEPT ![k] = IF holders[k] = {u} THEN None ELSE @]

Next == \E u \in Users, k \in Keys : Hold(u, k) \/ Drop(u, k)

Spec == Init /\ [][Next]_vars
=============================================================================
