----------------------------- MODULE MCOwnerCache -----------------------------
\* Small instances of OwnerCache for TLC: what the configurations c1, c2 and the
\* files f1, f2 extend.  Permuting goroutines or entries changes nothing.
EXTENDS OwnerCache, TLC

CONSTANTS c1, c2, f1, f2

\* both extend f1 and f2; f1 extends f2, and also itself
Nested == [x \in {c1, c2, f1, f2} |-> IF x = f2 THEN {} ELSE {f1, f2}]
\* both extend f1, and f1 extends f2
Chain  == [x \in {c1, c2, f1, f2} |-> IF x = f1 THEN {f2} ELSE IF x = f2 THEN {} ELSE {f1}]
\* c1 extends f1, c2 extends f2, and f1 and f2 extend each other
Circle == [x \in {c1, c2, f1, f2} |-> IF x \in {c1, f2} THEN {f1} ELSE {f2}]

Symmetry == Permutations(Loaders) \cup Permutations(Disposers) \cup Permutations(Entries)
=============================================================================
