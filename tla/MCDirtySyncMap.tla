-------------------------- MODULE MCDirtySyncMap --------------------------
EXTENDS DirtySyncMap, TLC

\* The goroutines of one build are interchangeable.
Symmetry == Permutations(Goroutines)
=============================================================================
