SPECIFICATION Spec
SYMMETRY IdSymmetry
CONSTANTS
    Peers = {p1, p2}
    Kinds <- MCKinds
    Capacity <- MCCapacity
    Weight <- MCWeight
    Requests <- MCRequests
    Floor = 1
    Whole = FALSE
    WindowLimit = 2
    OfferTimeout = 1
    LeaseTimeout = 1
    LeaseIds = {l1, l2}
    ReservationIds = {r1, r2}
    JobIds = {j1}
    MaxHandlers = 5
    OneJobPerLease = FALSE
    MayShutDown = FALSE
INVARIANTS
    ReservationAccounting
    NoDoubleBooking
PROPERTIES
    LeasesKept
