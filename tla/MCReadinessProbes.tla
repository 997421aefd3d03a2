------------------------- MODULE MCReadinessProbes -------------------------
EXTENDS ReadinessProbes, TLC

\* Threads and checks are interchangeable: no action tells two of them apart.
Symmetry == Permutations(Threads) \cup Permutations(Checks)
=============================================================================
