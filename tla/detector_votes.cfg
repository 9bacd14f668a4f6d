SPECIFICATION Spec
CONSTANTS
  Services = {s1}
  Nodes = {n1, n2}
  Rounds = {1, 2}
  Calls = {c1}
  Processes = {p1}
  ProcessOf <- OneProcessOf
  Window = 1
  QuorumNum = 51
  QuorumDen = 100
  MaxTime = 0
  MaxFaults = 0
SYMMETRY NodeSymmetry
PROPERTY
  QuorumOfNodes
CHECK_DEADLOCK FALSE
