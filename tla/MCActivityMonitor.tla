------------------------- MODULE MCActivityMonitor -------------------------
EXTENDS ActivityMonitor, TLC

Symmetry == Permutations(Conns) \cup Permutations(Scrapers)

=============================================================================
