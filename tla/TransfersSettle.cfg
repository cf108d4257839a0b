SPECIFICATION FairSpec
CONSTANTS
    w1 = w1
    w2 = w2
    s1 = s1
    Workers <- MCWorkers
    Servers <- MCServers
    SendTries = 1
    OpenTries = 1
    MaxRequests = 2
    MaxStreams = 2
    MaxCancels = 1
INVARIANTS
    GotWhole
    RepeatsNeedError
PROPERTIES
    SendsSettle
    ReceivesSettle
CHECK_DEADLOCK FALSE
