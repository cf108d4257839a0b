SPECIFICATION Spec
VIEW WithoutEarly
CONSTANTS
  w1 = w1
  w2 = w2
  w3 = w3
  s1 = s1
  s2 = s2
  None = None
  Workers = {w1, w2}
  InitialWorkers = {w1}
  ParameterServers = {s1}
  InitialServers <- OneServer
  UpdateTarget = 1
  UpdateRounds = 2
  MinQuorum = 1
  GraceMayElapse = TRUE
  Projections = {1}
  HasDestination = TRUE
  MaxFaults <- Churn
  FaultBudget = 2
INVARIANT MergedOnce
INVARIANT SamplesAccountedFor
INVARIANT PushesExclusive
CHECK_DEADLOCK FALSE
