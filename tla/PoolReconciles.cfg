SPECIFICATION FairSpec
CONSTANTS
  Peers = {p1, p2}
  LeaseIds = {l1, l2, l3}
  Prices = {1, 2, 3}
  MaxPrice = 2
  MinWorkers = 1
  Target = 2
  Grace = 1
  JoinsCapacity = 1
INVARIANT TargetRespected
INVARIANT MembersWatched
INVARIANT AnnouncedOnce
PROPERTY LostLeaseLeaves
CHECK_DEADLOCK FALSE
