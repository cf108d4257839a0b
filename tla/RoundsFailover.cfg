SPECIFICATION Spec
SYMMETRY WorkerSymmetry
CONSTANTS
  w1 = w1
  w2 = w2
  w3 = w3
  s1 = s1
  s2 = s2
  None = None
  Workers = {w1, w2}
  InitialWorkers = {w1, w2}
  ParameterServers = {s1, s2}
  InitialServers <- OneServer
  UpdateTarget = 1
  UpdateRounds = 2
  MinQuorum = 1
  GraceMayElapse = FALSE
  Projections = {0, 1}
  HasDestination = FALSE
  MaxFaults <- ServerFaults
  FaultBudget = 2
INVARIANT UpdateOncePerRound
INVARIANT BroadcastHasUpdate
INVARIANT CompleteUnlessRepeated
CHECK_DEADLOCK FALSE
