---------------------------- MODULE MCRefCountCache ----------------------------
\* Small instances of RefCountCache for TLC.  Permuting users, keys, entries or
\* values changes nothing.
EXTENDS RefCountCache, TLC

Symmetry ==
  Permutations(Users) \cup Permutations(Keys) \cup Permutations(Entries) \cup Permutations(Values)
=============================================================================
