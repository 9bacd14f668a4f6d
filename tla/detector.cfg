SPECIFICATION FairSpec
CONSTANTS
  Services = {s1}
  Nodes = {n1}
  Rounds = {1, 2, 3}
  Calls = {c1, c2}
  Processes = {p1}
  ProcessOf <- OneProcessOf
  Window = 1
  QuorumNum = 1
  QuorumDen = 2
  MaxTime = 2
  MaxFaults = 1
INVARIANTS
  TypeOK
  NoticesInOrder
  QuiescentVerdict
PROPERTIES
  ImplementsOutages
  EveryCallReturns
  EvaluationRepairsScreen
CHECK_DEADLOCK FALSE
