---------------------------- MODULE MCSiteCache ----------------------------
EXTENDS SiteCache, TLC

\* Neither scrapers nor sites are told apart by any action.
Symmetry == Permutations(Scrapers) \cup Permutations(Sites)
=============================================================================
