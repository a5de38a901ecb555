------------------------- MODULE MCSessionScheduling -------------------------
\* Small instances of SessionScheduling for TLC.  Permuting the goroutines of one
\* kind changes nothing.
EXTENDS SessionScheduling, TLC

Symmetry == Permutations(Others) \cup Permutations(Tasks) \cup Permutations(Timers)

\* Bound: two events, of whatever kinds, interleave with everything else.
FewEvents == appended + configNow + ataNow <= 2

Bounded == OptionsAlone /\ FewEvents
=============================================================================
