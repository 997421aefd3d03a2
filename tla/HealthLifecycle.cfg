SPECIFICATION LifecycleFairSpec
CONSTANTS
    Clients = {p1, p2}
    MaxStarts = 3
INVARIANTS
    AnswersWhenWired
    OnlyOneServesAndCanBeStopped
PROPERTIES
    StopReturns
