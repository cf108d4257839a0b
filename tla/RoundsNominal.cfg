SPECIFICATION FairSpec
CONSTANTS
  w1 = w1
  w2 = w2
  w3 = w3
  s1 = s1
  s2 = s2
  None = None
  Workers = {w1, w2, w3}
  InitialWorkers = {w1, w2, w3}
  ParameterServers = {s1}
  InitialServers <- OneServer
  UpdateTarget = 2
  UpdateRounds = 3
  MinQuorum = 1
  GraceMayElapse = FALSE
  Projections = {1, 2}
  HasDestination = TRUE
  MaxFaults <- NoFaults
  FaultBudget = 2
INVARIANT GradientsFromCurrentModel
INVARIANT ParticipantsUpToDate
INVARIANT TargetUnlessAllEarly
INVARIANT PushedModelIsFinal
PROPERTY FinishesUnlessAllEarlyOrLocked
CHECK_DEADLOCK FALSE
