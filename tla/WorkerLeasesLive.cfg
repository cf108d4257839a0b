SPECIFICATION FairSpec
CONSTANTS
    Peers = {p1}
    Kinds <- MCKinds
    Capacity <- MCCapacity
    Weight <- MCWeight
    Requests <- SmallRequest
    Floor = 1
    Whole = TRUE
    WindowLimit = 1
    OfferTimeout = 1
    LeaseTimeout = 1
    LeaseIds = {l1, l2}
    ReservationIds = {r1}
    JobIds = {j1, j2}
    MaxHandlers = 1
    OneJobPerLease = TRUE
    MayShutDown = TRUE
PROPERTIES
    ExpiredLeaseSettles
    LinkedJobCancelled
    InFlightSettles
    ShutdownCompletes
CHECK_DEADLOCK FALSE
