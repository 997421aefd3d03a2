SPECIFICATION Spec
CONSTANTS
    Threads = {main, worker}
    Registered = {main}
    MaxRetries = 0
    MaxTransforms = 1
    MaxRequests = 1
    MayRaise = FALSE
    Addresses = {a1, a2}
    None = None
INVARIANTS
    EveryCommitTraced
