SPECIFICATION FairSpec
CONSTANTS
    w1 = w1
    w2 = w2
    s1 = s1
    Workers <- MCWorkers
    Server = s1
    UpdateRounds = 2
    Capacity = 1
    MaxRounds = 2
    MaxSamples = 1
INVARIANTS
    RoundCountsOwnSamples
PROPERTIES
    RoundsReportedInOrder
    AnsweredUnlessLocked
CHECK_DEADLOCK FALSE
