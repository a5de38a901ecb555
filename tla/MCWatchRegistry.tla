--------------------------- MODULE MCWatchRegistry ---------------------------
\* Instances of WatchRegistry for TLC.  The slots of a snapshot are interchangeable.
EXTENDS WatchRegistry, TLC

Symmetry == Permutations(Slots)
=============================================================================
