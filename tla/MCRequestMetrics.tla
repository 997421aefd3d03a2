-------------------------- MODULE MCRequestMetrics --------------------------
EXTENDS RequestMetrics, TLC

BothClasses == <<"authenticated", "anonymous">>
OneClass == <<"anonymous">>

\* In every bucket, the clock having been set back during the request; and on
\* the bound of one bucket, beyond the other.
SomeDurations == {-1, 2}

Symmetry == Permutations(Workers) \cup Permutations(Scrapers)
=============================================================================
