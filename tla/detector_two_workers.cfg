SPECIFICATION Spec
CONSTANTS
  Services = {s1}
  Nodes = {n1}
  Rounds = {1, 2, 3}
  Calls = {c1, c2}
  Processes = {c1, c2}
  ProcessOf <- OwnProcessOf
  Window = 0
  QuorumNum = 1
  QuorumDen = 2
  MaxTime = 1
  MaxFaults = 1
INVARIANTS
  NoticeAfterCommit
  OpenIncidentsBounded
PROPERTIES
  VerdictsHaveEvidence
  DoubleOpenFreezes
CHECK_DEADLOCK FALSE
