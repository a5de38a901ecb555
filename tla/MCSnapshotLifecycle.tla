------------------------- MODULE MCSnapshotLifecycle -------------------------
(* TLC instances of SnapshotLifecycle. *)
EXTENDS SnapshotLifecycle, TLC

Symmetry == Permutations(Handlers) \cup Permutations(Tasks) \cup Permutations(Snapshots)
              \cup Permutations(Programs) \cup Permutations(Projects) \cup Permutations(Files)
=============================================================================
