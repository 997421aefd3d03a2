SPECIFICATION Spec
CONSTANTS
    Workers = {w1, w2}
    Scrapers = {s1}
    AUTH_CLASSES <- OneClass
    Bounds = {1, 2, 3}
    Durations = {2}
    Statuses = {200, 500}
    MaxRequests = 1
    Free = Free
SYMMETRY Symmetry
INVARIANTS
    EveryErrorCounted
