SPECIFICATION FairSpec
CONSTANTS
  Services = {s1}
  Processes = {p1}
  Urls = {u1}
  Intervals = {0, 1, 3}
  MinInterval = 1
  Jitter = 1
  SyncPeriod = 3
  Grace = 1
  MaxLag = 2
  Cycle = 3
  Long = 5
  MaxChanges = 3
  MaxFaults = 2
INVARIANTS
  TypeOK
  NotTooOften
PROPERTIES
  JobsFollowServices
  KeepsChecking
  RoundNamesOneCheck
