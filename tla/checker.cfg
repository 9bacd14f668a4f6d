SPECIFICATION FairSpec
CONSTANTS
  Nodes = {n1, n2}
  Checks = {check}
  Junk = Junk
  Concurrency = 1
  TasksMaxLen = 1
  MaxTasks = 2
  MaxStops = 2
  MaxFaults = 1
INVARIANTS
  TypeOK
  CleanStop
PROPERTIES
  ImplementsTasks
  EveryTaskIsReported
CHECK_DEADLOCK FALSE
