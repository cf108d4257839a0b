SPECIFICATION NodesFairSpec
CONSTANTS
    g1 = g1
    g2 = g2
    d1 = d1
    s1 = s1
    w1 = w1
    w2 = w2
    i1 = i1
    Node <- MCNode
    KindOf <- MCKindOf
    Deployments <- MCDeployments
    Relayed <- MCRelayed
    JoinRetries = 1
    MaxCrashes = 1
INVARIANTS
    RecordIsWhole
PROPERTIES
    HealthyNodesServe
    StartsOrExits
CHECK_DEADLOCK FALSE
