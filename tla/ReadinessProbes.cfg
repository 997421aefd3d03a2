SPECIFICATION Spec
CONSTANTS
    Threads = {t1, t2}
    Checks = {zodb, other}
    TTL = 2
    StuckAfter = 1
    None = None
INVARIANTS
    SingleFlight
    StartupStaysGreen
    GreenListsEveryCheck
    WarningIsForThisRun
PROPERTIES
    StuckAnswersNotReady
    LatchedByAFullPass
    ImplementsOneFlight
