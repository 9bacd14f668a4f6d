SPECIFICATION FairSpec
CONSTANTS
  Nodes = {n1, n2}
  Checks = {check}
  Junk = Junk
  Concurrency = 1
  TasksMaxLen = 2
  MaxTasks = 2
  MaxStops = 1
  MaxFaults = 1
PROPERTY
  ClaimedTaskIsHandled
CHECK_DEADLOCK FALSE
