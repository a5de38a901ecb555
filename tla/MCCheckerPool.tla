---------------------------- MODULE MCCheckerPool ----------------------------
(* TLC instances of CheckerPool. *)
EXTENDS CheckerPool, TLC

Symmetry == Permutations(Callers) \cup Permutations(Requests) \cup Permutations(Files)
              \cup Permutations(Instances) \cup Permutations(Diags)
=============================================================================
