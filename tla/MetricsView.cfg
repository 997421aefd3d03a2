SPECIFICATION ViewSpec
CONSTANTS
    Addrs = {a1, a2, a3}
    Junk = Junk
    MaxHops = 3
    Orders <- MCOrders
    Faulty = {"zodb", "addon", "request"}
    SiteCount = 2
    MaxDuration = 2
CHECK_DEADLOCK FALSE
INVARIANTS
    AnswersForTheClient
    NoMaximumIsLost
    ProvidersAreIsolated
    EachNameIsAnnouncedOnce
