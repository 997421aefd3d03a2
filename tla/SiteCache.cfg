SPECIFICATION FairSpec
CONSTANTS
    Scrapers = {s1, s2}
    Sites = {plone}
    TTL = 1
    MaxTime = 3
    MaxLag = 1
    MaxRemovals = 1
    None = None
INVARIANTS
    FailuresExpire
    EarlierSitesExpire
PROPERTIES
    GoneSitesAreForgotten
