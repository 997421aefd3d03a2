SPECIFICATION Spec
CONSTANTS
    Conns = {c1, c2}
    Scrapers = {s1, s2}
    MaxLoads = 2
    MaxDepth = 2
SYMMETRY Symmetry
INVARIANTS
    NoLoadIsLost
    CounterNeverFalls
    SpansCountTheirLoads
PROPERTIES
    ForeignMonitorStays
