SPECIFICATION Spec
CONSTANTS
    Scrapers = {s1, s2}
    TTL = 2
    MaxTime = 6
    MaxBack = 2
    None = None
SYMMETRY Symmetry
INVARIANTS
    NeverStale
