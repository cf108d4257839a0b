SPECIFICATION FairSpec
CONSTANTS
    NumCalls = 2
    h1 = h1
    r1 = r1
    r2 = r2
    Handlers <- MCHandlers
    Requests <- MCRequests
    QueueBound = 1
    StreamBuffer = 1
    HandlerBuffer = 1
    MaxResults = 1
    CallsBeside = 1
    UsesBeside = 2
PROPERTIES
    CallsKept
    CallsSettle
    RequestsSettle
CHECK_DEADLOCK FALSE
