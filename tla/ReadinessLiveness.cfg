SPECIFICATION FairSpec
CONSTANTS
    Threads = {t1, t2}
    Checks = {zodb}
    TTL = 1
    StuckAfter = 1
    None = None
PROPERTIES
    NoProbeWaits
    FlightIsReleased
    RecoversForGood
