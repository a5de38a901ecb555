---------------------------- MODULE AtomicEntry ----------------------------
(***************************************************************************)
(* What one key of a dirty.SyncMap promises the goroutines that build a    *)
(* snapshot together: however many entry objects exist for the key, there  *)
(* is one value, every change to it is one atomic step, and a deletion is  *)
(* final for the rest of the build.                                        *)
(***************************************************************************)
CONSTANTS Goroutines, Texts, Absent

VARIABLES value,        \* the key's value; Absent: never added, or deleted
          deleted       \* the key has been deleted in this build

vars == <<value, deleted>>

Values == [marks : SUBSET Goroutines, stale : BOOLEAN, text : Texts]

Init ==
    /\ value \in Values \cup {Absent}
    /\ deleted = FALSE

\* A key that has never been there is added with a value nobody has touched yet.
Add ==
    /\ value = Absent /\ ~deleted
    /\ value' \in {v \in Values : v.marks = {}}
    /\ UNCHANGED deleted

\* One goroutine puts its mark on the value, or takes it off.
Retain(g) ==
    /\ value # Absent
    /\ value' = [value EXCEPT !.marks = @ \cup {g}]
    /\ UNCHANGED deleted

Release(g) ==
    /\ value # Absent
    /\ value' = [value EXCEPT !.marks = @ \ {g}]
    /\ UNCHANGED deleted

\* The text of the value is replaced, every mark stays.
Reload ==
    /\ value # Absent
    /\ \E t \in Texts : value' = [value EXCEPT !.text = t, !.stale = FALSE]
    /\ UNCHANGED deleted

\* From now on the key is deleted; no step undoes that.
Remove ==
    /\ value # Absent
    /\ value' = Absent /\ deleted' = TRUE

Next ==
    \/ Add
    \/ \E g \in Goroutines : Retain(g) \/ Release(g)
    \/ Reload
    \/ Remove

Spec == Init /\ [][Next]_vars
=============================================================================
