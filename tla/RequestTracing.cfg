SPECIFICATION Spec
CONSTANTS
    Threads = {t1, t2}
    Registered = {t1}
    MaxRetries = 1
    MaxTransforms = 1
    MaxRequests = 2
    MayRaise = TRUE
    Addresses = {a1, a2}
    None = None
SYMMETRY Symmetry
INVARIANTS
    NothingLeftBehind
    ClosedExactlyOnce
    ConflictsCounted
    ExcludedPathsAreSilent
PROPERTIES
    SpansNestUnderPublish
