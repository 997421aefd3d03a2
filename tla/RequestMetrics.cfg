SPECIFICATION Spec
CONSTANTS
    Workers = {w1, w2}
    Scrapers = {s1, s2}
    AUTH_CLASSES <- BothClasses
    Bounds = {1, 2}
    Durations <- SomeDurations
    Statuses = {200, 500}
    MaxRequests = 2
    Free = Free
SYMMETRY Symmetry
INVARIANTS
    ExactWhenUnlocked
    WindowMaximum
    TornByOneRequest
