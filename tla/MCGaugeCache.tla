---------------------------- MODULE MCGaugeCache ----------------------------
EXTENDS GaugeCache, TLC

\* Scrapers are interchangeable.
Symmetry == Permutations(Scrapers)
=============================================================================
